---- MODULE Spec2Model ----
(***************************************************************************)
(* Query-and-cache path of the data API: the key encoder                   *)
(* (main.generate_cache_key), the cache store (cache.CacheManager over     *)
(* Redis), the query engine (crud.get_products / get_users / get_orders)   *)
(* and the list endpoints of main.py.                                      *)
(*                                                                         *)
(* Python strings are sequences of one-character strings, so formatting,   *)
(* joining, sorting and substring search are computed, not assumed.        *)
(***************************************************************************)
EXTENDS Integers, Sequences, FiniteSets, TLC

VARIABLES
    call,       \* the operation last invoked, with its arguments
    ret,        \* its outcome
    store,      \* Redis: key -> [raw |-> serialized text, exp |-> absolute expiry]
    now,        \* Redis server clock, in seconds
    written,    \* ghost: key -> the Python value of the last successful set still stored
    products,   \* table products: set of rows
    users,      \* table users
    orders      \* table orders

vars == <<call, ret, store, now, written, products, users, orders>>

----------------------------------------------------------------------------
(* Bounds of the model *)

MaxParams == 3      \* keyword arguments per generate_cache_key call
MaxNow == 2         \* the clock stops here
MaxRows == 3        \* rows a table can hold
MaxPage == 2        \* largest page number requested
MaxSize == 2        \* largest page size requested

----------------------------------------------------------------------------
(* String literals of the source *)

s_products == <<"p", "r", "o", "d", "u", "c", "t", "s">>
s_users == <<"u", "s", "e", "r", "s">>
s_orders == <<"o", "r", "d", "e", "r", "s">>
s_page == <<"p", "a", "g", "e">>
s_size == <<"s", "i", "z", "e">>
s_search == <<"s", "e", "a", "r", "c", "h">>
s_category == <<"c", "a", "t", "e", "g", "o", "r", "y">>
s_brand == <<"b", "r", "a", "n", "d">>
s_min_price == <<"m", "i", "n", "_", "p", "r", "i", "c", "e">>
s_max_price == <<"m", "a", "x", "_", "p", "r", "i", "c", "e">>
s_sort_by == <<"s", "o", "r", "t", "_", "b", "y">>
s_sort_order == <<"s", "o", "r", "t", "_", "o", "r", "d", "e", "r">>
s_city == <<"c", "i", "t", "y">>
s_country == <<"c", "o", "u", "n", "t", "r", "y">>
s_user_id == <<"u", "s", "e", "r", "_", "i", "d">>
s_status == <<"s", "t", "a", "t", "u", "s">>
s_id == <<"i", "d">>
s_price == <<"p", "r", "i", "c", "e">>
s_asc == <<"a", "s", "c">>
s_desc == <<"d", "e", "s", "c">>
s_None == <<"N", "o", "n", "e">>
s_items == <<"i", "t", "e", "m", "s">>
s_total == <<"t", "o", "t", "a", "l">>
s_pages == <<"p", "a", "g", "e", "s">>
s_name == <<"n", "a", "m", "e">>
s_description == <<"d", "e", "s", "c", "r", "i", "p", "t", "i", "o", "n">>
s_stock_quantity == <<"s", "t", "o", "c", "k", "_", "q", "u", "a", "n", "t", "i", "t", "y">>
s_rating == <<"r", "a", "t", "i", "n", "g">>
s_is_active == <<"i", "s", "_", "a", "c", "t", "i", "v", "e">>
s_created_at == <<"c", "r", "e", "a", "t", "e", "d", "_", "a", "t">>
s_updated_at == <<"u", "p", "d", "a", "t", "e", "d", "_", "a", "t">>
s_email == <<"e", "m", "a", "i", "l">>
s_first_name == <<"f", "i", "r", "s", "t", "_", "n", "a", "m", "e">>
s_last_name == <<"l", "a", "s", "t", "_", "n", "a", "m", "e">>
s_phone == <<"p", "h", "o", "n", "e">>
s_address == <<"a", "d", "d", "r", "e", "s", "s">>
s_product_id == <<"p", "r", "o", "d", "u", "c", "t", "_", "i", "d">>
s_quantity == <<"q", "u", "a", "n", "t", "i", "t", "y">>
s_unit_price == <<"u", "n", "i", "t", "_", "p", "r", "i", "c", "e">>
s_total_amount == <<"t", "o", "t", "a", "l", "_", "a", "m", "o", "u", "n", "t">>
s_order_date == <<"o", "r", "d", "e", "r", "_", "d", "a", "t", "e">>
s_user == <<"u", "s", "e", "r">>
s_product == <<"p", "r", "o", "d", "u", "c", "t">>
s_pending == <<"p", "e", "n", "d", "i", "n", "g">>
s_processing == <<"p", "r", "o", "c", "e", "s", "s", "i", "n", "g">>
s_shipped == <<"s", "h", "i", "p", "p", "e", "d">>
s_delivered == <<"d", "e", "l", "i", "v", "e", "r", "e", "d">>
s_cancelled == <<"c", "a", "n", "c", "e", "l", "l", "e", "d">>
s_confirmed_ == <<"c", "o", "n", "f", "i", "r", "m", "e", "d">>

(* Free-text values a caller may send *)
t_empty == << >>
t_x == <<"x">>
t_y == <<"y">>
t_X == <<"X">>
t_inject == <<"x", "&", "c", "a", "t", "e", "g", "o", "r", "y", "=", "y">>

----------------------------------------------------------------------------
(* Python values *)

None == [t |-> "None"]
PyInt(n) == [t |-> "int", i |-> n]
PyStr(s) == [t |-> "str", s |-> s]
\* a float with one decimal digit, held in tenths: PyFloat(105) is 10.5
PyFloat(tenths) == [t |-> "float", f |-> tenths]

Digits == <<"0", "1", "2", "3", "4", "5", "6", "7", "8", "9">>

RECURSIVE NatStr(_)
NatStr(n) == IF n < 10 THEN <<Digits[n + 1]>>
             ELSE NatStr(n \div 10) \o <<Digits[(n % 10) + 1]>>

\* str(int)
IntStr(n) == IF n < 0 THEN <<"-">> \o NatStr(-n) ELSE NatStr(n)

\* a plausible slip: the float is written as its whole part
FloatStrWhole(tenths) ==
    IF tenths < 0 THEN <<"-">> \o NatStr((-tenths) \div 10) ELSE NatStr(tenths \div 10)

\* repr(float) for the one-decimal floats of the model: 10.5, 100.0
FloatStr(tenths) ==
    IF tenths < 0
    THEN <<"-">> \o NatStr((-tenths) \div 10) \o <<".">> \o NatStr((-tenths) % 10)
    ELSE NatStr(tenths \div 10) \o <<".">> \o NatStr(tenths % 10)

\* f"{v}": format(v, "") is str(v)
FormatValue(v) ==
    CASE v.t = "None"  -> s_None
      [] v.t = "int"   -> IntStr(v.i)
      [] v.t = "float" -> FloatStr(v.f)
      [] v.t = "str"   -> v.s

\* The characters of the model in code-point order; str comparison is by code point.
Ascii == <<"&", "-", ".",
           "0", "1", "2", "3", "4", "5", "6", "7", "8", "9",
           "=", "?", "N", "X", "_",
           "a", "b", "c", "d", "e", "f", "g", "h", "i", "j", "k", "l", "m",
           "n", "o", "p", "r", "s", "t", "u", "v", "x", "y", "z">>

Ord(c) == CHOOSE i \in 1..Len(Ascii) : Ascii[i] = c

\* a < b for Python str
RECURSIVE StrLess(_, _)
StrLess(a, b) ==
    IF b = << >> THEN FALSE
    ELSE IF a = << >> THEN TRUE
    ELSE IF Head(a) = Head(b) THEN StrLess(Tail(a), Tail(b))
    ELSE Ord(Head(a)) < Ord(Head(b))

\* sep.join(parts)
RECURSIVE Join(_, _)
Join(sep, parts) ==
    IF parts = << >> THEN << >>
    ELSE IF Len(parts) = 1 THEN parts[1]
    ELSE parts[1] \o sep \o Join(sep, Tail(parts))

----------------------------------------------------------------------------
(* Key encoder: main.generate_cache_key *)

\* **params: the keyword arguments in call order, as <<name, value>> pairs
RECURSIVE InsertItem(_, _)
InsertItem(item, sortedItems) ==
    IF sortedItems = << >> THEN <<item>>
    ELSE IF StrLess(item[1], Head(sortedItems)[1])
         THEN <<item>> \o sortedItems
         ELSE <<Head(sortedItems)>> \o InsertItem(item, Tail(sortedItems))

RECURSIVE SortedByName(_)
SortedByName(items) ==
    IF items = << >> THEN << >>
    ELSE InsertItem(Head(items), SortedByName(Tail(items)))

\* a plausible slip: the items are joined in call order
UnsortedItems(items) == items

\* sorted(params.items()): the names are distinct, so the order is by name
SortedItems(items) == SortedByName(items)

\* [f"{k}={v}" for k, v in ... if v is not None]
RECURSIVE FormatPresent(_)
FormatPresent(items) ==
    IF items = << >> THEN << >>
    ELSE IF Head(items)[2] = None THEN FormatPresent(Tail(items))
    ELSE <<Head(items)[1] \o <<"=">> \o FormatValue(Head(items)[2])>>
         \o FormatPresent(Tail(items))

\* hashlib.md5(s.encode()).hexdigest(), taken as injective on its input: the
\* digest of s is the text s behind the mark "md5", which no other key starts with
Md5(s) == <<"md5">> \o s

CacheString(endpoint, params) ==
    endpoint \o <<"?">> \o Join(<<"&">>, FormatPresent(SortedItems(params)))

generate_cache_key(endpoint, params) == Md5(CacheString(endpoint, params))

----------------------------------------------------------------------------
(* Specification SpecKey: generate_cache_key applied to two parameter      *)
(* mappings of one endpoint.                                               *)

Endpoints == {s_products, s_users, s_orders}

KeyNames == {s_brand, s_category, s_page}

KeyValues(k) ==
    CASE k = s_brand    -> {None, PyStr(t_x), PyStr(t_inject)}
      [] k = s_category -> {None, PyStr(t_y)}
      [] k = s_page     -> {None, PyInt(1)}

SeqsUpTo(S, n) == UNION {[1..m -> S] : m \in 0..n}

KeyItems == {<<k, v>> : k \in KeyNames, v \in UNION {KeyValues(k2) : k2 \in KeyNames}}

\* keyword arguments: distinct names, each value of its parameter's type
ParamMaps ==
    {p \in SeqsUpTo(KeyItems, MaxParams) :
        /\ \A i \in 1..Len(p) : p[i][2] \in KeyValues(p[i][1])
        /\ \A i, j \in 1..Len(p) : i # j => p[i][1] # p[j][1]}

Pending == [t |-> "pending"]

EmptyStore == << >>

InitKey ==
    /\ call \in [op : {"generate_cache_key"}, endpoint : Endpoints,
                 p1 : ParamMaps, p2 : ParamMaps]
    /\ ret = Pending
    /\ store = EmptyStore
    /\ now = 0
    /\ written = EmptyStore
    /\ products = {}
    /\ users = {}
    /\ orders = {}

GenerateCacheKey ==
    /\ call.op = "generate_cache_key"
    /\ ret = Pending
    /\ ret' = [t |-> "keys",
               k1 |-> generate_cache_key(call.endpoint, call.p1),
               k2 |-> generate_cache_key(call.endpoint, call.p2)]
    /\ UNCHANGED <<call, store, now, written, products, users, orders>>

NextKey == GenerateCacheKey

SpecKey == InitKey /\ [][NextKey]_vars

\* the present (non-None) name/value pairs of a mapping
Present(p) == {p[i] : i \in {j \in 1..Len(p) : p[j][2] # None}}

\* C1: two mappings with the same non-None name/value pairs get the same key,
\* whatever the order of the arguments and however many None-valued extras.
C1_Canonical ==
    (ret.t = "keys" /\ Present(call.p1) = Present(call.p2)) => ret.k1 = ret.k2

\* two present pairs supplied in opposite orders, one side with a None extra
C1_Witness ==
    /\ ret.t = "keys"
    /\ call.p1 = <<<<s_category, PyStr(t_y)>>, <<s_brand, PyStr(t_x)>>>>
    /\ call.p2 = <<<<s_brand, PyStr(t_x)>>, <<s_page, None>>, <<s_category, PyStr(t_y)>>>>
    /\ ret.k1 = ret.k2

\* C2: two mappings of one endpoint that differ in a present value get different
\* keys (the hash taken as injective), also for text holding '&' and '='.
C2_Distinct ==
    (ret.t = "keys" /\ Present(call.p1) # Present(call.p2)) => ret.k1 # ret.k2

----------------------------------------------------------------------------
(* JSON text: json.dumps(value, default=str) and json.loads *)

PyBool(b) == [t |-> "bool", b |-> b]
PyList(elems) == [t |-> "list", l |-> elems]
\* a dict: its <<key, value>> pairs in insertion order, the keys str
PyDict(pairs) == [t |-> "dict", d |-> pairs]
\* an object json cannot encode (a datetime, say); o is its str()
PyObj(text) == [t |-> "object", o |-> text]

Dq == "\""

\* a datetime: day dt of January 2024, at midnight
PyDatetime(dt) == [t |-> "datetime", dt |-> dt]

\* str(datetime) with sep " ", datetime.isoformat() with sep "T"
DateText(dt, sep) ==
    <<"2", "0", "2", "4", "-", "0", "1", "-">>
    \o (IF dt < 10 THEN <<"0">> ELSE << >>) \o NatStr(dt)
    \o <<sep, "0", "0", ":", "0", "0", ":", "0", "0">>

isoformat(dt) == DateText(dt, "T")

RECURSIVE json_dumps(_)
json_dumps(value) ==
    CASE value.t = "None"   -> <<"n", "u", "l", "l">>
      [] value.t = "bool"   -> IF value.b THEN <<"t", "r", "u", "e">>
                               ELSE <<"f", "a", "l", "s", "e">>
      [] value.t = "int"    -> IntStr(value.i)
      [] value.t = "float"  -> FloatStr(value.f)
      [] value.t = "str"    -> <<Dq>> \o value.s \o <<Dq>>
      [] value.t = "list"   ->
            <<"[">> \o Join(<<",", " ">>,
                           [i \in 1..Len(value.l) |-> json_dumps(value.l[i])])
                    \o <<"]">>
      [] value.t = "dict"   ->
            <<"{">> \o Join(<<",", " ">>,
                           [i \in 1..Len(value.d) |->
                               <<Dq>> \o value.d[i][1] \o <<Dq, ":", " ">>
                                      \o json_dumps(value.d[i][2])])
                    \o <<"}">>
      [] value.t = "object" -> <<Dq>> \o value.o \o <<Dq>>     \* default=str
      [] value.t = "datetime" -> <<Dq>> \o DateText(value.dt, " ") \o <<Dq>>  \* default=str

\* A parse result: [ok |-> TRUE, v |-> value, at |-> next index] or NoParse
NoParse == [ok |-> FALSE]
Parsed(v, at) == [ok |-> TRUE, v |-> v, at |-> at]

IsDigit(c) == \E d \in 1..10 : Digits[d] = c
DigitVal(c) == (CHOOSE d \in 1..10 : Digits[d] = c) - 1

RECURSIVE SkipWs(_, _)
SkipWs(s, i) == IF i <= Len(s) /\ s[i] = " " THEN SkipWs(s, i + 1) ELSE i

\* the index after the last of the digits starting at i
RECURSIVE DigitsEnd(_, _)
DigitsEnd(s, i) == IF i <= Len(s) /\ IsDigit(s[i]) THEN DigitsEnd(s, i + 1) ELSE i

RECURSIVE DigitsVal(_, _, _)
DigitsVal(s, i, j) == IF j <= i THEN 0
                      ELSE 10 * DigitsVal(s, i, j - 1) + DigitVal(s[j - 1])

\* the index of the closing quote of the string whose text starts at i, or 0
RECURSIVE QuoteAt(_, _)
QuoteAt(s, i) == IF i > Len(s) THEN 0
                 ELSE IF s[i] = Dq THEN i
                 ELSE QuoteAt(s, i + 1)

HasWord(s, i, w) == i + Len(w) - 1 <= Len(s) /\ SubSeq(s, i, i + Len(w) - 1) = w

ParseNumber(s, i) ==
    LET neg  == s[i] = "-"
        d0   == IF neg THEN i + 1 ELSE i
        d1   == DigitsEnd(s, d0)
        sign == IF neg THEN -1 ELSE 1
    IN  IF d1 = d0 THEN NoParse
        ELSE IF d1 <= Len(s) /\ s[d1] = "."
        THEN LET f1 == DigitsEnd(s, d1 + 1)
             IN  IF f1 # d1 + 2 THEN NoParse    \* the model's floats have one decimal
                 ELSE Parsed(PyFloat(sign * (10 * DigitsVal(s, d0, d1)
                                             + DigitVal(s[d1 + 1]))), f1)
        ELSE Parsed(PyInt(sign * DigitsVal(s, d0, d1)), d1)

ParseString(s, i) ==
    LET q == QuoteAt(s, i + 1)
    IN  IF q = 0 THEN NoParse ELSE Parsed(PyStr(SubSeq(s, i + 1, q - 1)), q + 1)

RECURSIVE ParseValue(_, _)
RECURSIVE ParseElems(_, _, _)
RECURSIVE ParseMembers(_, _, _)

\* the elements after "[" (or after a comma), acc the elements read so far
ParseElems(s, i, acc) ==
    LET e == ParseValue(s, SkipWs(s, i))
    IN  IF ~e.ok THEN NoParse
        ELSE LET j == SkipWs(s, e.at)
             IN  IF j > Len(s) THEN NoParse
                 ELSE IF s[j] = "]" THEN Parsed(PyList(Append(acc, e.v)), j + 1)
                 ELSE IF s[j] = "," THEN ParseElems(s, j + 1, Append(acc, e.v))
                 ELSE NoParse

\* the members after "{" (or after a comma)
ParseMembers(s, i, acc) ==
    LET k0 == SkipWs(s, i)
    IN  IF k0 > Len(s) \/ s[k0] # Dq THEN NoParse
        ELSE LET k == ParseString(s, k0)
             IN  IF ~k.ok THEN NoParse
                 ELSE LET c == SkipWs(s, k.at)
                      IN  IF c > Len(s) \/ s[c] # ":" THEN NoParse
                          ELSE LET e == ParseValue(s, SkipWs(s, c + 1))
                               IN  IF ~e.ok THEN NoParse
                                   ELSE LET j   == SkipWs(s, e.at)
                                            mem == Append(acc, <<k.v.s, e.v>>)
                                        IN  IF j > Len(s) THEN NoParse
                                            ELSE IF s[j] = "}"
                                                 THEN Parsed(PyDict(mem), j + 1)
                                            ELSE IF s[j] = ","
                                                 THEN ParseMembers(s, j + 1, mem)
                                            ELSE NoParse

ParseValue(s, i) ==
    IF i > Len(s) THEN NoParse
    ELSE CASE s[i] = "n" -> IF HasWord(s, i, <<"n", "u", "l", "l">>)
                            THEN Parsed(None, i + 4) ELSE NoParse
           [] s[i] = "t" -> IF HasWord(s, i, <<"t", "r", "u", "e">>)
                            THEN Parsed(PyBool(TRUE), i + 4) ELSE NoParse
           [] s[i] = "f" -> IF HasWord(s, i, <<"f", "a", "l", "s", "e">>)
                            THEN Parsed(PyBool(FALSE), i + 5) ELSE NoParse
           [] s[i] = Dq  -> ParseString(s, i)
           [] s[i] = "[" -> LET j == SkipWs(s, i + 1)
                            IN  IF j <= Len(s) /\ s[j] = "]"
                                THEN Parsed(PyList(<< >>), j + 1)
                                ELSE ParseElems(s, i + 1, << >>)
           [] s[i] = "{" -> LET j == SkipWs(s, i + 1)
                            IN  IF j <= Len(s) /\ s[j] = "}"
                                THEN Parsed(PyDict(<< >>), j + 1)
                                ELSE ParseMembers(s, i + 1, << >>)
           [] s[i] = "-" \/ IsDigit(s[i]) -> ParseNumber(s, i)
           [] OTHER -> NoParse

\* json.loads(text): the parsed value, or NoParse where it raises JSONDecodeError
json_loads(text) ==
    LET r == ParseValue(text, SkipWs(text, 1))
    IN  IF r.ok /\ SkipWs(text, r.at) = Len(text) + 1 THEN r ELSE NoParse

\* bool(v)
Truthy(v) ==
    CASE v.t = "None"   -> FALSE
      [] v.t = "bool"   -> v.b
      [] v.t = "int"    -> v.i # 0
      [] v.t = "float"  -> v.f # 0
      [] v.t = "str"    -> Len(v.s) > 0
      [] v.t = "list"   -> Len(v.l) > 0
      [] v.t = "dict"   -> Len(v.d) > 0
      [] v.t = "object" -> TRUE
      [] v.t = "datetime" -> TRUE

----------------------------------------------------------------------------
(* Redis, as the redis-py client of cache.py sees it.  `up` is whether the *)
(* backend answers this command; a command that fails changes nothing.     *)

Return(v) == [kind |-> "return", v |-> v]
Raise(e) == [kind |-> "raise", exc |-> e]

Put(f, k, v) == [x \in DOMAIN f \cup {k} |-> IF x = k THEN v ELSE f[x]]
Without(f, S) == [x \in DOMAIN f \ S |-> f[x]]

\* a plausible slip: entries are stored without an expiry and stay
NeverExpired(st, t) == st

\* the entries still alive at time t (Redis drops an entry once its expiry is reached)
Unexpired(st, t) == [k \in {x \in DOMAIN st : st[x].exp > t} |-> st[k]]

\* KEYS pattern matching: "*" is any run of characters
RECURSIVE GlobMatch(_, _)
GlobMatch(pattern, s) ==
    IF pattern = << >> THEN s = << >>
    ELSE IF Head(pattern) = "*"
         THEN GlobMatch(Tail(pattern), s) \/ (s # << >> /\ GlobMatch(pattern, Tail(s)))
         ELSE s # << >> /\ Head(pattern) = Head(s) /\ GlobMatch(Tail(pattern), Tail(s))

\* client.get(key): the stored text (decode_responses=True), or None
client_get(st, key, up) ==
    IF ~up THEN Raise("ConnectionError")
    ELSE Return(IF key \in DOMAIN st THEN PyStr(st[key].raw) ELSE None)

\* a plausible slip: the text is appended to what the key holds (APPEND, not SETEX)
client_append(st, t, key, ttl, text, up) ==
    IF ~up THEN [out |-> Raise("ConnectionError"), st |-> st]
    ELSE IF ttl.i <= 0 THEN [out |-> Raise("ResponseError"), st |-> st]
    ELSE [out |-> Return(PyBool(TRUE)),
          st |-> Put(st, key, [raw |-> (IF key \in DOMAIN st THEN st[key].raw ELSE << >>)
                                        \o text,
                               exp |-> t + ttl.i])]

\* client.setex(key, ttl, text): [out |-> outcome, st |-> store afterwards]
client_setex(st, t, key, ttl, text, up) ==
    IF ~up THEN [out |-> Raise("ConnectionError"), st |-> st]
    ELSE IF ttl.i <= 0 THEN [out |-> Raise("ResponseError"), st |-> st]
    ELSE [out |-> Return(PyBool(TRUE)),
          st |-> Put(st, key, [raw |-> text, exp |-> t + ttl.i])]

\* client.delete(*keys): the number of keys removed
client_delete(st, keys, up) ==
    IF ~up THEN [out |-> Raise("ConnectionError"), st |-> st]
    ELSE [out |-> Return(PyInt(Cardinality(keys \cap DOMAIN st))),
          st |-> Without(st, keys)]

\* client.keys(pattern)
client_keys(st, pattern, up) ==
    IF ~up THEN Raise("ConnectionError")
    ELSE Return({k \in DOMAIN st : GlobMatch(pattern, k)})

----------------------------------------------------------------------------
(* Cache store: cache.CacheManager *)

default_ttl == 300

\* a plausible slip: no try/except around the body
NoCatch(outcome, fallback) == outcome

\* try: <outcome> except Exception: return fallback
Catch(outcome, fallback) ==
    IF outcome.kind = "raise" THEN Return(fallback) ELSE outcome

\* a plausible slip: the truthiness test is on the decoded value, not on the text
CacheManager_get_decoded_truthy(st, key, up) ==
    LET value == client_get(st, key, up)
    IN  Catch(IF value.kind = "raise" THEN value
              ELSE IF value.v = None THEN Return(None)
              ELSE LET r == json_loads(value.v.s)
                   IN  IF ~r.ok THEN Raise("JSONDecodeError")
                       ELSE IF Truthy(r.v) THEN Return(r.v) ELSE Return(None),
              None)

CacheManager_get(st, key, up) ==
    LET value == client_get(st, key, up)
    IN  Catch(IF value.kind = "raise" THEN value
              ELSE IF Truthy(value.v)
                   THEN LET r == json_loads(value.v.s)
                        IN  IF r.ok THEN Return(r.v) ELSE Raise("JSONDecodeError")
                   ELSE Return(None),
              None)

CacheManager_set(st, t, key, value, ttl, up) ==
    LET ttl1       == IF Truthy(ttl) THEN ttl ELSE PyInt(default_ttl)
        serialized == json_dumps(value)
        r          == client_setex(st, t, key, ttl1, serialized, up)
    IN  [out |-> Catch(r.out, PyBool(FALSE)), st |-> r.st]

CacheManager_delete(st, key, up) ==
    LET r == client_delete(st, {key}, up)
    IN  [out |-> Catch(IF r.out.kind = "raise" THEN r.out
                       ELSE Return(PyBool(r.out.v.i # 0)),
                       PyBool(FALSE)),
         st |-> r.st]

\* a plausible slip: only one of the matching keys is deleted
CacheManager_clear_one(st, pattern, upKeys, upDelete) ==
    LET keys == client_keys(st, pattern, upKeys)
    IN  IF keys.kind = "raise" THEN [out |-> Return(PyInt(0)), st |-> st]
        ELSE IF keys.v # {}
             THEN LET r == client_delete(st, {CHOOSE k \in keys.v : TRUE}, upDelete)
                  IN  [out |-> Catch(r.out, PyInt(0)), st |-> r.st]
             ELSE [out |-> Return(PyInt(0)), st |-> st]

CacheManager_clear_pattern(st, pattern, upKeys, upDelete) ==
    LET keys == client_keys(st, pattern, upKeys)
    IN  IF keys.kind = "raise" THEN [out |-> Catch(keys, PyInt(0)), st |-> st]
        ELSE IF keys.v # {}
             THEN LET r == client_delete(st, keys.v, upDelete)
                  IN  [out |-> Catch(r.out, PyInt(0)), st |-> r.st]
             ELSE [out |-> Return(PyInt(0)), st |-> st]

----------------------------------------------------------------------------
(* Specification SpecCache: the CacheManager operations against Redis,     *)
(* with the clock and another Redis client writing text of its own.        *)

s_stats == <<"s", "t", "a", "t", "s">>
s_product_ == <<"p", "r", "o", "d", "u", "c", "t", "_">>

CacheKeys == {s_stats, s_product_ \o IntStr(1)}

CacheValues == {None, PyInt(0), PyList(<< >>), PyDict(<< >>),
                PyDict(<<<<s_id, PyInt(1)>>, <<s_price, PyFloat(105)>>>>)}

TtlArgs == {None, PyInt(1), PyInt(-1)}

Patterns == {<<"*">>, s_product_ \o <<"*">>}

\* text that is not JSON, and the empty text
ForeignTexts == {<<"{">>, << >>}

\* the values of the JSON data model: json.dumps needs no default= for them
RECURSIVE IsJsonValue(_)
IsJsonValue(v) ==
    CASE v.t = "list"   -> \A i \in 1..Len(v.l) : IsJsonValue(v.l[i])
      [] v.t = "dict"   -> \A i \in 1..Len(v.d) : IsJsonValue(v.d[i][2])
      [] v.t = "object" -> FALSE
      [] v.t = "datetime" -> FALSE
      [] OTHER          -> TRUE

InitDb ==
    /\ products = {}
    /\ users = {}
    /\ orders = {}

InitCache ==
    /\ call = [op |-> "init"]
    /\ ret = Pending
    /\ store = EmptyStore
    /\ now = 0
    /\ written = EmptyStore
    /\ InitDb

CacheGet(key, up) ==
    /\ call' = [op |-> "get", key |-> key, up |-> up]
    /\ ret' = CacheManager_get(store, key, up)
    /\ UNCHANGED <<store, now, written, products, users, orders>>

CacheSet(key, value, ttl, up) ==
    LET r == CacheManager_set(store, now, key, value, ttl, up)
    IN  /\ call' = [op |-> "set", key |-> key, up |-> up]
        /\ ret' = r.out
        /\ store' = r.st
        /\ written' = IF r.out = Return(PyBool(TRUE))
                      THEN Put(written, key, [value |-> value, at |-> now, ttl |-> ttl])
                      ELSE written
        /\ UNCHANGED <<now, products, users, orders>>

CacheDelete(key, up) ==
    LET r == CacheManager_delete(store, key, up)
    IN  /\ call' = [op |-> "delete", key |-> key, up |-> up]
        /\ ret' = r.out
        /\ store' = r.st
        /\ written' = Without(written, DOMAIN store \ DOMAIN r.st)
        /\ UNCHANGED <<now, products, users, orders>>

CacheClearPattern(pattern, upKeys, upDelete) ==
    LET r == CacheManager_clear_pattern(store, pattern, upKeys, upDelete)
    IN  /\ call' = [op |-> "clear_pattern", pattern |-> pattern,
                    up |-> upKeys /\ upDelete]
        /\ ret' = r.out
        /\ store' = r.st
        /\ written' = Without(written, DOMAIN store \ DOMAIN r.st)
        /\ UNCHANGED <<now, products, users, orders>>

\* a second passes; Redis drops the entries whose expiry is reached
Tick ==
    /\ now < MaxNow
    /\ now' = now + 1
    /\ store' = Unexpired(store, now + 1)
    /\ call' = [op |-> "tick"]
    /\ ret' = Pending
    /\ UNCHANGED <<written, products, users, orders>>

\* another client of the same Redis stores text under a key
ForeignSet(key, text) ==
    /\ store' = Put(store, key, [raw |-> text, exp |-> now + default_ttl])
    /\ written' = Without(written, {key})
    /\ call' = [op |-> "foreign_set", key |-> key]
    /\ ret' = Pending
    /\ UNCHANGED <<now, products, users, orders>>

NextCache ==
    \/ \E key \in CacheKeys, up \in BOOLEAN : CacheGet(key, up)
    \/ \E key \in CacheKeys, value \in CacheValues, ttl \in TtlArgs, up \in BOOLEAN :
          CacheSet(key, value, ttl, up)
    \/ \E key \in CacheKeys, up \in BOOLEAN : CacheDelete(key, up)
    \/ \E pattern \in Patterns, upKeys \in BOOLEAN, upDelete \in BOOLEAN :
          CacheClearPattern(pattern, upKeys, upDelete)
    \/ Tick
    \/ \E key \in CacheKeys, text \in ForeignTexts : ForeignSet(key, text)

SpecCache == InitCache /\ [][NextCache]_vars

\* C3: a get of a key whose last successful set stored a JSON value v with a
\* positive ttl returns v until the ttl has elapsed, and a miss from then on.
C3_RoundTrip ==
    (/\ call.op = "get"
     /\ call.up
     /\ call.key \in DOMAIN written
     /\ IsJsonValue(written[call.key].value)
     /\ written[call.key].ttl # None
     /\ written[call.key].ttl.i > 0)
    => ret = Return(IF now < written[call.key].at + written[call.key].ttl.i
                    THEN written[call.key].value
                    ELSE None)

\* the falsy value 0, read back in the second it was set
C3_Witness ==
    /\ call.op = "get"
    /\ call.up
    /\ call.key \in DOMAIN written
    /\ written[call.key] = [value |-> PyInt(0), at |-> now, ttl |-> PyInt(1)]
    /\ ret = Return(PyInt(0))

\* C4: delete of a key that is not stored reports True when the backend answers.
C4_DeleteMissingSucceeds ==
    [][(/\ call'.op = "delete"
        /\ call'.up
        /\ call'.key \notin DOMAIN store)
       => ret' = Return(PyBool(TRUE))]_vars

\* C5: clear_pattern("*") on a reachable backend empties the store and returns
\* the number of entries it removed (0 on an empty store); every get then misses.
C5_ClearAll ==
    [][(/\ call'.op = "clear_pattern"
        /\ call'.pattern = <<"*">>
        /\ call'.up)
       => /\ store' = EmptyStore
          /\ ret' = Return(PyInt(Cardinality(DOMAIN store)))
          /\ \A k \in CacheKeys : CacheManager_get(store', k, TRUE) = Return(None)]_vars

\* two entries removed at once
C5_Witness ==
    /\ call.op = "clear_pattern"
    /\ call.pattern = <<"*">>
    /\ call.up
    /\ ret = Return(PyInt(2))
    /\ store = EmptyStore

\* the text stored under k cannot be decoded
Undecodable(st, k) == k \in DOMAIN st /\ ~json_loads(st[k].raw).ok

\* C6: no CacheManager operation raises; on a backend failure or undecodable text
\* get gives None, set False, delete False, clear_pattern 0, the store untouched.
C6_NeverRaises ==
    [][(call'.op \in {"get", "set", "delete", "clear_pattern"})
       => /\ ret'.kind = "return"
          /\ (call'.op = "get" /\ (~call'.up \/ Undecodable(store, call'.key)))
             => (ret' = Return(None) /\ store' = store)
          /\ (call'.op = "set" /\ ~call'.up)
             => (ret' = Return(PyBool(FALSE)) /\ store' = store)
          /\ (call'.op = "delete" /\ ~call'.up)
             => (ret' = Return(PyBool(FALSE)) /\ store' = store)
          /\ (call'.op = "clear_pattern" /\ ~call'.up)
             => (ret' = Return(PyInt(0)) /\ store' = store)]_vars

\* a get of text that is not JSON, answered with a miss
C6_Witness ==
    /\ call.op = "get"
    /\ call.up
    /\ call.key \in DOMAIN store
    /\ store[call.key].raw = <<"{">>
    /\ ret = Return(None)

----------------------------------------------------------------------------
(* Query engine: crud.py.  A table is a set of rows with distinct ids; a   *)
(* query reads it in id order, and ORDER BY keeps rows with equal sort     *)
(* values in that order.                                                   *)

Lower(c) == CASE c = "X" -> "x" [] c = "N" -> "n" [] OTHER -> c

LowerStr(s) == [i \in 1..Len(s) |-> Lower(s[i])]

\* text ILIKE pattern: "%" is any run of characters, "_" any one character
RECURSIVE Like(_, _)
Like(pattern, text) ==
    IF pattern = << >> THEN text = << >>
    ELSE IF Head(pattern) = "%"
         THEN Like(Tail(pattern), text) \/ (text # << >> /\ Like(pattern, Tail(text)))
         ELSE /\ text # << >>
              /\ (Head(pattern) = "_" \/ Lower(Head(pattern)) = Lower(Head(text)))
              /\ Like(Tail(pattern), Tail(text))

\* column.ilike(f"%{search}%")
ilike_contains(text, search) == Like(<<"%">> \o search \o <<"%">>, text)

RECURSIVE ById(_)
ById(rows) ==
    IF rows = {} THEN << >>
    ELSE LET r == CHOOSE x \in rows : \A y \in rows : x.id <= y.id
         IN  <<r>> \o ById(rows \ {r})

\* math.ceil(total / limit)
CeilDiv(total, limit) == (total + limit - 1) \div limit

\* a plausible slip: a page past the end shows the last rows again
OffsetLimitClamped(rows, skip, limit) ==
    IF skip >= Len(rows)
    THEN SubSeq(rows, IF Len(rows) > limit THEN Len(rows) - limit + 1 ELSE 1, Len(rows))
    ELSE SubSeq(rows, skip + 1, IF skip + limit < Len(rows) THEN skip + limit ELSE Len(rows))

\* query.offset(skip).limit(limit).all()
OffsetLimit(rows, skip, limit) ==
    SubSeq(rows, skip + 1, IF skip + limit < Len(rows) THEN skip + limit ELSE Len(rows))

\* a plausible slip: pages by floor division
PagesFloor(total, limit) == total \div limit

\* "pages": math.ceil(total / limit)
Pages(total, limit) == CeilDiv(total, limit)

\* getattr(Product, sort_by, Product.id): a column of the model, else the id
ProductAttr(row, name) ==
    CASE name = s_id             -> row.id
      [] name = s_name           -> row.name
      [] name = s_price          -> row.price
      [] name = s_category       -> row.category
      [] name = s_brand          -> row.brand
      [] name = s_stock_quantity -> row.stock_quantity
      [] name = s_rating         -> row.rating
      [] name = s_created_at     -> row.created_at
      [] name = s_updated_at     -> row.updated_at
      [] name = s_description    -> row.description
      [] name = s_is_active      -> IF row.is_active THEN 1 ELSE 0
      [] OTHER                   -> row.id

\* getattr(User, sort_by, User.id): a column of the model, else the id
UserAttr(row, name) ==
    CASE name = s_id         -> row.id
      [] name = s_email      -> row.email
      [] name = s_first_name -> row.first_name
      [] name = s_last_name  -> row.last_name
      [] name = s_city       -> row.city
      [] name = s_country    -> row.country
      [] name = s_created_at -> row.created_at
      [] name = s_phone      -> row.phone
      [] name = s_address    -> row.address
      [] name = s_is_active  -> IF row.is_active THEN 1 ELSE 0
      [] OTHER               -> row.id

\* getattr(Order, sort_by, Order.id): a column of the model, else the id
OrderAttr(row, name) ==
    CASE name = s_id           -> row.id
      [] name = s_user_id      -> row.user_id
      [] name = s_product_id   -> row.product_id
      [] name = s_quantity     -> row.quantity
      [] name = s_unit_price   -> row.unit_price
      [] name = s_total_amount -> row.total_amount
      [] name = s_status       -> row.status
      [] name = s_order_date   -> row.order_date
      [] OTHER                 -> row.id

SortColumn(model, row, name) ==
    CASE model = "Product" -> ProductAttr(row, name)
      [] model = "User"    -> UserAttr(row, name)
      [] model = "Order"   -> OrderAttr(row, name)

TextColumns == {s_name, s_category, s_brand, s_email, s_first_name, s_last_name,
                s_city, s_country, s_status, s_description, s_phone, s_address}

\* a sorts strictly before b
Before(a, b, name, desc) ==
    IF name \in TextColumns
    THEN (IF desc THEN StrLess(b, a) ELSE StrLess(a, b))
    ELSE (IF desc THEN b < a ELSE a < b)

\* ORDER BY: insertion into the sorted rows, after every row of equal sort value
RECURSIVE InsertRow(_, _, _, _, _)
InsertRow(row, sorted, model, name, desc) ==
    IF sorted = << >> THEN <<row>>
    ELSE IF Before(SortColumn(model, row, name), SortColumn(model, Head(sorted), name),
                   name, desc)
         THEN <<row>> \o sorted
         ELSE <<Head(sorted)>> \o InsertRow(row, Tail(sorted), model, name, desc)

RECURSIVE order_by(_, _, _, _)
order_by(rows, model, name, desc) ==
    IF rows = << >> THEN << >>
    ELSE InsertRow(rows[Len(rows)],
                   order_by(SubSeq(rows, 1, Len(rows) - 1), model, name, desc),
                   model, name, desc)

\* "page": (skip // limit) + 1
PageOf(skip, limit) == (skip \div limit) + 1

\* the tail of every list query: count, sort, slice, and the page arithmetic
Paginate(query, model, skip, limit, sort_by, sort_order) ==
    LET total  == Len(query)
        sorted == order_by(query, model, sort_by, LowerStr(sort_order) = s_desc)
    IN  [items |-> OffsetLimit(sorted, skip, limit),
         total |-> total,
         page  |-> PageOf(skip, limit),
         size  |-> limit,
         pages |-> Pages(total, limit)]

\* the WHERE clause of crud.get_products
ProductFilter(r, search, category, brand, min_price, max_price) ==
    /\ Truthy(search) => \/ ilike_contains(r.name, search.s)
                         \/ ilike_contains(r.description, search.s)
                         \/ ilike_contains(r.brand, search.s)
    /\ Truthy(category) => r.category = category.s
    /\ Truthy(brand) => r.brand = brand.s
    /\ min_price # None => r.price >= min_price.f
    /\ max_price # None => r.price <= max_price.f

crud_get_products(rows, skip, limit, search, category, brand, min_price, max_price, sort_by, sort_order) ==
    Paginate(SelectSeq(ById(rows),
                       LAMBDA r : ProductFilter(r, search, category, brand,
                                                min_price, max_price)),
             "Product", skip, limit, sort_by, sort_order)

\* the WHERE clause of crud.get_users
UserFilter(r, search, city, country) ==
    /\ Truthy(search) => \/ ilike_contains(r.first_name, search.s)
                         \/ ilike_contains(r.last_name, search.s)
                         \/ ilike_contains(r.email, search.s)
    /\ Truthy(city) => r.city = city.s
    /\ Truthy(country) => r.country = country.s

crud_get_users(rows, skip, limit, search, city, country, sort_by, sort_order) ==
    Paginate(SelectSeq(ById(rows), LAMBDA r : UserFilter(r, search, city, country)),
             "User", skip, limit, sort_by, sort_order)

\* the WHERE clause of crud.get_orders
OrderFilter(r, user_id, status) ==
    /\ Truthy(user_id) => r.user_id = user_id.i
    /\ Truthy(status) => r.status = status.s

crud_get_orders(rows, skip, limit, user_id, status, sort_by, sort_order) ==
    Paginate(SelectSeq(ById(rows), LAMBDA r : OrderFilter(r, user_id, status)),
             "Order", skip, limit, sort_by, sort_order)

----------------------------------------------------------------------------
(* List endpoints: main.py *)

list_ttl == 300

Response(status, body, path) == [status |-> status, body |-> body, path |-> path]

\* a plausible slip: the timestamps are put in the response as datetime objects
ProductItemDictRawDates(item) ==
    PyDict(<<<<s_id, PyInt(item.id)>>,
             <<s_name, PyStr(item.name)>>,
             <<s_description, PyStr(item.description)>>,
             <<s_price, PyFloat(item.price)>>,
             <<s_category, PyStr(item.category)>>,
             <<s_brand, PyStr(item.brand)>>,
             <<s_stock_quantity, PyInt(item.stock_quantity)>>,
             <<s_rating, PyFloat(item.rating)>>,
             <<s_is_active, PyBool(item.is_active)>>,
             <<s_created_at, PyDatetime(item.created_at)>>,
             <<s_updated_at, PyDatetime(item.updated_at)>>>>)

ProductItemDict(item) ==
    PyDict(<<<<s_id, PyInt(item.id)>>,
             <<s_name, PyStr(item.name)>>,
             <<s_description, PyStr(item.description)>>,
             <<s_price, PyFloat(item.price)>>,
             <<s_category, PyStr(item.category)>>,
             <<s_brand, PyStr(item.brand)>>,
             <<s_stock_quantity, PyInt(item.stock_quantity)>>,
             <<s_rating, PyFloat(item.rating)>>,
             <<s_is_active, PyBool(item.is_active)>>,
             <<s_created_at, PyStr(isoformat(item.created_at))>>,
             <<s_updated_at, PyStr(isoformat(item.updated_at))>>>>)

\* response_data = {"items": ..., "total": ..., "page": ..., "size": ..., "pages": ...}
ResponseData(items_dict, result) ==
    PyDict(<<<<s_items, PyList(items_dict)>>,
             <<s_total, PyInt(result.total)>>,
             <<s_page, PyInt(result.page)>>,
             <<s_size, PyInt(result.size)>>,
             <<s_pages, PyInt(result.pages)>>>>)

\* the miss path of get_products: query, then assemble
ProductsLive(rows, params) ==
    LET skip   == (params.page - 1) * params.size
        result == crud_get_products(rows, skip, params.size, params.search,
                                    params.category, params.brand, params.min_price,
                                    params.max_price, params.sort_by, params.sort_order)
    IN  ResponseData([i \in 1..Len(result.items) |-> ProductItemDict(result.items[i])],
                     result)

ProductsCacheKey(params) ==
    generate_cache_key(s_products,
        <<<<s_page, PyInt(params.page)>>,
          <<s_size, PyInt(params.size)>>,
          <<s_search, params.search>>,
          <<s_category, params.category>>,
          <<s_brand, params.brand>>,
          <<s_min_price, params.min_price>>,
          <<s_max_price, params.max_price>>,
          <<s_sort_by, PyStr(params.sort_by)>>,
          <<s_sort_order, PyStr(params.sort_order)>>>>)

\* a plausible slip: a hit stores the entry again, which restarts its expiry
LookAsideRefresh(st, t, cache_key, live, upGet, upSet, upDb) ==
    LET cached_result == CacheManager_get(st, cache_key, upGet)
    IN  IF cached_result.kind = "raise"
        THEN [resp |-> Response(500, None, "error"), st |-> st]
        ELSE IF Truthy(cached_result.v)
        THEN [resp |-> Response(200, cached_result.v, "hit"),
              st |-> CacheManager_set(st, t, cache_key, cached_result.v,
                                      PyInt(list_ttl), upSet).st]
        ELSE IF ~upDb
        THEN [resp |-> Response(500, None, "error"), st |-> st]
        ELSE LET r == CacheManager_set(st, t, cache_key, live, PyInt(list_ttl), upSet)
             IN  IF r.out.kind = "raise"
                 THEN [resp |-> Response(500, None, "error"), st |-> r.st]
                 ELSE [resp |-> Response(200, live, "miss"), st |-> r.st]

\* the part of a list handler after validation: look aside, else query and populate.
\* An exception out of the cache calls, or out of the query when the database is
\* down (upDb false), is handled nowhere and ends the request with status 500.
LookAside(st, t, cache_key, live, upGet, upSet, upDb) ==
    LET cached_result == CacheManager_get(st, cache_key, upGet)
    IN  IF cached_result.kind = "raise"
        THEN [resp |-> Response(500, None, "error"), st |-> st]
        ELSE IF Truthy(cached_result.v)
        THEN [resp |-> Response(200, cached_result.v, "hit"), st |-> st]
        ELSE IF ~upDb
        THEN [resp |-> Response(500, None, "error"), st |-> st]
        ELSE LET r == CacheManager_set(st, t, cache_key, live, PyInt(list_ttl), upSet)
             IN  IF r.out.kind = "raise"
                 THEN [resp |-> Response(500, None, "error"), st |-> r.st]
                 ELSE [resp |-> Response(200, live, "miss"), st |-> r.st]

\* GET /products
get_products(params, st, t, rows, upGet, upSet, upDb) ==
    IF params.sort_order \notin {s_asc, s_desc}
    THEN [resp |-> Response(400, None, "rejected"), st |-> st]
    ELSE IF params.page < 1
    THEN [resp |-> Response(400, None, "rejected"), st |-> st]
    ELSE IF params.size < 1 \/ params.size > 1000
    THEN [resp |-> Response(400, None, "rejected"), st |-> st]
    ELSE LookAside(st, t, ProductsCacheKey(params), ProductsLive(rows, params),
                   upGet, upSet, upDb)

UserItemDict(item) ==
    PyDict(<<<<s_id, PyInt(item.id)>>,
             <<s_email, PyStr(item.email)>>,
             <<s_first_name, PyStr(item.first_name)>>,
             <<s_last_name, PyStr(item.last_name)>>,
             <<s_phone, PyStr(item.phone)>>,
             <<s_address, PyStr(item.address)>>,
             <<s_city, PyStr(item.city)>>,
             <<s_country, PyStr(item.country)>>,
             <<s_is_active, PyBool(item.is_active)>>,
             <<s_created_at, PyStr(isoformat(item.created_at))>>>>)

\* the miss path of get_users
UsersLive(rows, params) ==
    LET skip   == (params.page - 1) * params.size
        result == crud_get_users(rows, skip, params.size, params.search, params.city,
                                 params.country, params.sort_by, params.sort_order)
    IN  ResponseData([i \in 1..Len(result.items) |-> UserItemDict(result.items[i])],
                     result)

UsersCacheKey(params) ==
    generate_cache_key(s_users,
        <<<<s_page, PyInt(params.page)>>,
          <<s_size, PyInt(params.size)>>,
          <<s_search, params.search>>,
          <<s_city, params.city>>,
          <<s_country, params.country>>,
          <<s_sort_by, PyStr(params.sort_by)>>,
          <<s_sort_order, PyStr(params.sort_order)>>>>)

\* GET /users
get_users(params, st, t, rows, upGet, upSet, upDb) ==
    IF params.sort_order \notin {s_asc, s_desc}
    THEN [resp |-> Response(400, None, "rejected"), st |-> st]
    ELSE IF params.page < 1
    THEN [resp |-> Response(400, None, "rejected"), st |-> st]
    ELSE IF params.size < 1 \/ params.size > 1000
    THEN [resp |-> Response(400, None, "rejected"), st |-> st]
    ELSE LookAside(st, t, UsersCacheKey(params), UsersLive(rows, params),
                   upGet, upSet, upDb)

\* item.user / item.product: the row the foreign key refers to, if there is one
Related(rows, id) ==
    IF \E r \in rows : r.id = id THEN {r \in rows : r.id = id} ELSE {}

\* a plausible slip: the order's user and product are read as one inner join,
\* so that neither is given when either is missing
OrderItemDictInnerJoin(item, userRows, productRows) ==
    LET user    == Related(userRows, item.user_id)
        product == Related(productRows, item.product_id)
        both    == user # {} /\ product # {}
    IN  PyDict(<<<<s_id, PyInt(item.id)>>,
                 <<s_user_id, PyInt(item.user_id)>>,
                 <<s_product_id, PyInt(item.product_id)>>,
                 <<s_quantity, PyInt(item.quantity)>>,
                 <<s_unit_price, PyFloat(item.unit_price)>>,
                 <<s_total_amount, PyFloat(item.total_amount)>>,
                 <<s_status, PyStr(item.status)>>,
                 <<s_order_date, PyStr(isoformat(item.order_date))>>,
                 <<s_user, IF both THEN UserItemDict(CHOOSE u \in user : TRUE)
                                   ELSE None>>,
                 <<s_product, IF both THEN ProductItemDict(CHOOSE q \in product : TRUE)
                              ELSE None>>>>)

OrderItemDict(item, userRows, productRows) ==
    LET user    == Related(userRows, item.user_id)
        product == Related(productRows, item.product_id)
    IN  PyDict(<<<<s_id, PyInt(item.id)>>,
                 <<s_user_id, PyInt(item.user_id)>>,
                 <<s_product_id, PyInt(item.product_id)>>,
                 <<s_quantity, PyInt(item.quantity)>>,
                 <<s_unit_price, PyFloat(item.unit_price)>>,
                 <<s_total_amount, PyFloat(item.total_amount)>>,
                 <<s_status, PyStr(item.status)>>,
                 <<s_order_date, PyStr(isoformat(item.order_date))>>,
                 <<s_user, IF user # {} THEN UserItemDict(CHOOSE u \in user : TRUE)
                                        ELSE None>>,
                 <<s_product, IF product # {}
                              THEN ProductItemDict(CHOOSE q \in product : TRUE)
                              ELSE None>>>>)

\* params.status.value if params.status else None
StatusValue(status) == IF Truthy(status) THEN status ELSE None

\* the miss path of get_orders
OrdersLive(rows, userRows, productRows, params) ==
    LET skip   == (params.page - 1) * params.size
        result == crud_get_orders(rows, skip, params.size, params.user_id,
                                  StatusValue(params.status),
                                  params.sort_by, params.sort_order)
    IN  ResponseData([i \in 1..Len(result.items) |->
                         OrderItemDict(result.items[i], userRows, productRows)],
                     result)

OrdersCacheKey(params) ==
    generate_cache_key(s_orders,
        <<<<s_page, PyInt(params.page)>>,
          <<s_size, PyInt(params.size)>>,
          <<s_user_id, params.user_id>>,
          <<s_status, StatusValue(params.status)>>,
          <<s_sort_by, PyStr(params.sort_by)>>,
          <<s_sort_order, PyStr(params.sort_order)>>>>)

\* GET /orders
get_orders(params, st, t, rows, userRows, productRows, upGet, upSet, upDb) ==
    IF params.sort_order \notin {s_asc, s_desc}
    THEN [resp |-> Response(400, None, "rejected"), st |-> st]
    ELSE IF params.page < 1
    THEN [resp |-> Response(400, None, "rejected"), st |-> st]
    ELSE IF params.size < 1 \/ params.size > 1000
    THEN [resp |-> Response(400, None, "rejected"), st |-> st]
    ELSE IF params.user_id # None /\ params.user_id.i < 1
    THEN [resp |-> Response(400, None, "rejected"), st |-> st]
    ELSE LookAside(st, t, OrdersCacheKey(params),
                   OrdersLive(rows, userRows, productRows, params),
                   upGet, upSet, upDb)

----------------------------------------------------------------------------
(* The list endpoints over a fixed database that is up: one request, issued *)
(* again and again, with the cache backend up or down at each of its calls. *)

\* rows as seed_data.py builds them, with small values
ProductRow(id) ==
    [id |-> id,
     name |-> IF id % 3 = 1 THEN t_x ELSE IF id % 3 = 2 THEN t_X ELSE t_y,
     description |-> t_empty,
     price |-> IF id % 3 = 0 THEN 200 ELSE 105,
     category |-> IF id % 3 = 0 THEN t_x ELSE t_y,
     brand |-> t_y,
     stock_quantity |-> id,
     rating |-> 45,
     is_active |-> TRUE,
     created_at |-> id,
     updated_at |-> id]

UserRow(id) ==
    [id |-> id,
     email |-> t_y \o NatStr(id),
     first_name |-> IF id % 3 = 1 THEN t_x ELSE IF id % 3 = 2 THEN t_X ELSE t_y,
     last_name |-> t_y,
     phone |-> t_empty,
     address |-> t_empty,
     city |-> IF id % 3 = 0 THEN t_x ELSE t_y,
     country |-> t_y,
     is_active |-> TRUE,
     created_at |-> id]

OrderRow(id) ==
    [id |-> id,
     user_id |-> ((id - 1) % 2) + 1,
     product_id |-> 1,
     quantity |-> id,
     unit_price |-> 105,
     total_amount |-> id * 105,
     status |-> IF id % 3 = 2 THEN s_shipped ELSE s_pending,
     order_date |-> id]

\* the n oldest rows of each table
ProductTable(n) == {ProductRow(i) : i \in 1..n}
UserTable(n) == {UserRow(i) : i \in 1..n}
OrderTable(n) == {OrderRow(i) : i \in 1..n}

Pagings == [page : 1..MaxPage, size : 1..MaxSize]

ProductRequests ==
    {[op |-> "get_products",
      params |-> [page |-> g.page, size |-> g.size, sort_by |-> v[1],
                  sort_order |-> v[2], min_price |-> v[3], max_price |-> None,
                  search |-> f.search, category |-> f.category, brand |-> None]] :
        g \in Pagings,
        v \in {<<s_id, s_asc, None>>, <<s_price, s_desc, PyFloat(200)>>},
        f \in [search : {None, PyStr(t_x)},
               category : {None, PyStr(t_empty), PyStr(t_y)}]}

UserRequests ==
    {[op |-> "get_users",
      params |-> [page |-> g.page, size |-> g.size, sort_by |-> v[1],
                  sort_order |-> v[2], search |-> f.search, city |-> f.city,
                  country |-> None]] :
        g \in Pagings,
        v \in {<<s_id, s_asc>>, <<s_city, s_desc>>},
        f \in [search : {None, PyStr(t_x)},
               city : {None, PyStr(t_empty), PyStr(t_y)}]}

OrderRequests ==
    {[op |-> "get_orders",
      params |-> [page |-> g.page, size |-> g.size, sort_by |-> v[1],
                  sort_order |-> v[2], user_id |-> f.user_id, status |-> f.status]] :
        g \in Pagings,
        v \in {<<s_id, s_asc>>, <<s_status, s_desc>>},
        f \in [user_id : {None, PyInt(1)},
               status : {None, PyStr(s_pending), PyStr(s_shipped)}]}

InitList ==
    /\ ret = Pending
    /\ store = EmptyStore
    /\ now = 0
    /\ written = << >>
    /\ \E n \in 0..MaxRows :
        \/ /\ call \in ProductRequests
           /\ products = ProductTable(n)
           /\ users = {}
           /\ orders = {}
        \/ /\ call \in UserRequests
           /\ users = UserTable(n)
           /\ products = {}
           /\ orders = {}
        \/ /\ call \in OrderRequests
           /\ orders = OrderTable(n)
           /\ users = UserTable(2)
           /\ products = ProductTable(1)

\* the request `c` handled against store `st`
Handle(c, st, upGet, upSet) ==
    CASE c.op = "get_products" ->
            get_products(c.params, st, now, products, upGet, upSet, TRUE)
      [] c.op = "get_users" ->
            get_users(c.params, st, now, users, upGet, upSet, TRUE)
      [] c.op = "get_orders" ->
            get_orders(c.params, st, now, orders, users, products, upGet, upSet, TRUE)

\* the handler's outcome r becomes the response and the new cache contents
Served(r, upGet, upSet) ==
    /\ ret' = [status |-> r.status, body |-> r.body, path |-> r.path,
               upGet |-> upGet, upSet |-> upSet]
    /\ UNCHANGED <<call, now, written, products, users, orders>>

ListProducts(upGet, upSet) ==
    /\ call.op = "get_products"
    /\ LET r == get_products(call.params, store, now, products, upGet, upSet, TRUE)
       IN  Served(r.resp, upGet, upSet) /\ store' = r.st

ListUsers(upGet, upSet) ==
    /\ call.op = "get_users"
    /\ LET r == get_users(call.params, store, now, users, upGet, upSet, TRUE)
       IN  Served(r.resp, upGet, upSet) /\ store' = r.st

ListOrders(upGet, upSet) ==
    /\ call.op = "get_orders"
    /\ LET r == get_orders(call.params, store, now, orders, users, products,
                           upGet, upSet, TRUE)
       IN  Served(r.resp, upGet, upSet) /\ store' = r.st

NextList ==
    \E upGet \in BOOLEAN, upSet \in BOOLEAN :
        \/ ListProducts(upGet, upSet)
        \/ ListUsers(upGet, upSet)
        \/ ListOrders(upGet, upSet)

SpecList == InitList /\ [][NextList]_vars

\* reading a response body
Field(d, key) == LET i == CHOOSE n \in 1..Len(d.d) : d.d[n][1] = key IN d.d[i][2]

Keys(d) == {d.d[n][1] : n \in 1..Len(d.d)}

ListFields == {s_items, s_total, s_page, s_size, s_pages}

\* the rows the request's WHERE clause selects
MatchingRows(c) ==
    CASE c.op = "get_products" ->
            {r \in products : ProductFilter(r, c.params.search, c.params.category,
                                            c.params.brand, c.params.min_price,
                                            c.params.max_price)}
      [] c.op = "get_users" ->
            {r \in users : UserFilter(r, c.params.search, c.params.city,
                                      c.params.country)}
      [] c.op = "get_orders" ->
            {r \in orders : OrderFilter(r, c.params.user_id,
                                        StatusValue(c.params.status))}

\* the response to `c` when an earlier, undisturbed request has populated the cache
HitResponse(c) ==
    LET populated == Handle(c, EmptyStore, TRUE, TRUE).st
    IN  Handle(c, populated, TRUE, TRUE).resp

\* C7: a list request handled while the cache backend is down for both the
\* get and the set succeeds with the live query's result, and that response
\* has the fields items, total, page, size, pages and the same values as the
\* response a cache hit for the same request over the same data returns.
C7_DegradedSameAsHit ==
    (ret # Pending /\ ~ret.upGet /\ ~ret.upSet) =>
        /\ ret.status = 200
        /\ ret.path = "miss"
        /\ Keys(ret.body) = ListFields
        /\ LET hit == HitResponse(call)
           IN  /\ hit.status = 200
               /\ hit.path = "hit"
               /\ hit.body = ret.body

C7_Witness ==
    /\ ret # Pending
    /\ ~ret.upGet
    /\ ~ret.upSet
    /\ ret.status = 200
    /\ Len(Field(ret.body, s_items).l) = 2
    /\ store # EmptyStore

\* len(items) of the response to `c` asked for page q
PageItems(c, q) ==
    Len(Field(Handle([c EXCEPT !.params.page = q], EmptyStore, FALSE, FALSE).resp.body,
              s_items).l)

RECURSIVE SumItems(_, _)
SumItems(c, q) == IF q = 0 THEN 0 ELSE PageItems(c, q) + SumItems(c, q - 1)

\* C8: with T matching rows and page size S, every list response reports
\* pages = ceil(T/S), that is the least number with pages * S >= T, and the
\* items of the responses for pages 1..pages add up to T.
C8_PaginationLaw ==
    ret # Pending =>
        LET T     == Cardinality(MatchingRows(call))
            S     == call.params.size
            pages == Field(ret.body, s_pages).i
        IN  /\ pages * S >= T
            /\ (pages - 1) * S < T
            /\ SumItems(call, pages) = T

C8_Witness ==
    /\ ret # Pending
    /\ Cardinality(MatchingRows(call)) = 3
    /\ call.params.size = 2
    /\ Field(ret.body, s_pages).i = 2

\* C9: a list request for a page after the last one is answered with status
\* 200, no items, and total and pages those of the whole matching set.
C9_PageBeyondLast ==
    LET T == Cardinality(MatchingRows(call))
        S == call.params.size
    IN  (ret # Pending /\ call.params.page > CeilDiv(T, S)) =>
            /\ ret.status = 200
            /\ Field(ret.body, s_items) = PyList(<< >>)
            /\ Field(ret.body, s_total) = PyInt(T)
            /\ Field(ret.body, s_pages) = PyInt(CeilDiv(T, S))

C9_Witness ==
    /\ ret # Pending
    /\ ret.status = 200
    /\ Cardinality(MatchingRows(call)) > 0
    /\ call.params.page > Field(ret.body, s_pages).i
    /\ Field(ret.body, s_items) = PyList(<< >>)

\* sub occurs in text, letter case apart
Contains(text, sub) ==
    \E i \in 0..(Len(text) - Len(sub)) :
        LowerStr(SubSeq(text, i + 1, i + Len(sub))) = LowerStr(sub)

\* row r, read in a full scan, satisfies every filter of `c` that is not None
Satisfies(c, r) ==
    CASE c.op = "get_products" ->
            /\ c.params.search # None =>
                  \/ Contains(r.name, c.params.search.s)
                  \/ Contains(r.description, c.params.search.s)
                  \/ Contains(r.brand, c.params.search.s)
            /\ c.params.category # None => r.category = c.params.category.s
            /\ c.params.brand # None => r.brand = c.params.brand.s
            /\ c.params.min_price # None => r.price >= c.params.min_price.f
            /\ c.params.max_price # None => r.price <= c.params.max_price.f
      [] c.op = "get_users" ->
            /\ c.params.search # None =>
                  \/ Contains(r.first_name, c.params.search.s)
                  \/ Contains(r.last_name, c.params.search.s)
                  \/ Contains(r.email, c.params.search.s)
            /\ c.params.city # None => r.city = c.params.city.s
            /\ c.params.country # None => r.country = c.params.country.s
      [] c.op = "get_orders" ->
            /\ c.params.user_id # None => r.user_id = c.params.user_id.i
            /\ c.params.status # None => r.status = c.params.status.s

FullScan(c) ==
    CASE c.op = "get_products" -> products
      [] c.op = "get_users"    -> users
      [] c.op = "get_orders"   -> orders

\* C10: the total of a list response is the number of rows of the full table
\* that satisfy every filter of the request whose value is not None.
C10_TotalMatchesScan ==
    ret # Pending =>
        Field(ret.body, s_total).i
            = Cardinality({r \in FullScan(call) : Satisfies(call, r)})

----------------------------------------------------------------------------
(* The list operations of crud.py called directly, with any sort field.    *)

\* schemas.py: the allow-lists of sort fields
ProductSortFields == {s_id, s_name, s_price, s_category, s_brand, s_stock_quantity,
                      s_rating, s_created_at, s_updated_at}

UserSortFields == {s_id, s_email, s_first_name, s_last_name, s_city, s_country,
                   s_created_at}

OrderSortFields == {s_id, s_user_id, s_product_id, s_quantity, s_unit_price,
                    s_total_amount, s_status, s_order_date}

SortOrders == {s_asc, s_desc}

CrudPagings == [skip : 0..MaxRows, limit : 1..MaxSize, sort_order : SortOrders]

\* the price bounds tried: none, or the price 10.5 that some rows have
PriceBounds == {None, PyFloat(105)}

CrudCalls ==
    {[op |-> "get_products", skip |-> g.skip, limit |-> g.limit,
      sort_order |-> g.sort_order, sort_by |-> f.sort_by, filter |-> f.filter,
      min_price |-> f.min_price, max_price |-> f.max_price] :
        g \in CrudPagings,
        f \in [sort_by : {s_id, s_price, t_x},
               filter : {None, PyStr(t_empty), PyStr(t_y)},
               min_price : PriceBounds, max_price : PriceBounds]}
    \cup
    {[op |-> "get_users", skip |-> g.skip, limit |-> g.limit,
      sort_order |-> g.sort_order, sort_by |-> f.sort_by, filter |-> f.filter,
      min_price |-> None, max_price |-> None] :
        g \in CrudPagings,
        f \in [sort_by : {s_id, s_city, t_x},
               filter : {None, PyStr(t_empty), PyStr(t_y)}]}
    \cup
    {[op |-> "get_orders", skip |-> g.skip, limit |-> g.limit,
      sort_order |-> g.sort_order, sort_by |-> f.sort_by, filter |-> f.filter,
      min_price |-> None, max_price |-> None] :
        g \in CrudPagings,
        f \in [sort_by : {s_id, s_status, t_x},
               filter : {None, PyStr(t_empty), PyStr(s_pending)}]}

InitCrud ==
    /\ ret = Pending
    /\ store = EmptyStore
    /\ now = 0
    /\ written = << >>
    /\ call \in CrudCalls
    /\ \E n \in 0..MaxRows :
        /\ products = (IF call.op = "get_products" THEN ProductTable(n) ELSE {})
        /\ users = (IF call.op = "get_users" THEN UserTable(n) ELSE {})
        /\ orders = (IF call.op = "get_orders" THEN OrderTable(n) ELSE {})

Returned(result) ==
    /\ ret' = result
    /\ UNCHANGED <<call, store, now, written, products, users, orders>>

\* crud.get_products(db, skip, limit, category=filter, min_price, max_price, ...)
CrudProducts ==
    /\ call.op = "get_products"
    /\ ret = Pending
    /\ Returned(crud_get_products(products, call.skip, call.limit, None, call.filter,
                                  None, call.min_price, call.max_price,
                                  call.sort_by, call.sort_order))

\* crud.get_users(db, skip, limit, city=filter, sort_by, sort_order)
CrudUsers ==
    /\ call.op = "get_users"
    /\ ret = Pending
    /\ Returned(crud_get_users(users, call.skip, call.limit, None, call.filter, None,
                               call.sort_by, call.sort_order))

\* crud.get_orders(db, skip, limit, status=filter, sort_by, sort_order)
CrudOrders ==
    /\ call.op = "get_orders"
    /\ ret = Pending
    /\ Returned(crud_get_orders(orders, call.skip, call.limit, None, call.filter,
                                call.sort_by, call.sort_order))

NextCrud == CrudProducts \/ CrudUsers \/ CrudOrders

SpecCrud == InitCrud /\ [][NextCrud]_vars

\* the sort fields the entity of the call recognises
RecognizedFields(c) ==
    CASE c.op = "get_products" -> ProductSortFields
      [] c.op = "get_users"    -> UserSortFields
      [] c.op = "get_orders"   -> OrderSortFields

\* the rows the call's filter selects
Selected(c) ==
    CASE c.op = "get_products" ->
            {r \in products : ProductFilter(r, None, c.filter, None,
                                            c.min_price, c.max_price)}
      [] c.op = "get_users" -> {r \in users : UserFilter(r, None, c.filter, None)}
      [] c.op = "get_orders" -> {r \in orders : OrderFilter(r, None, c.filter)}

Ids(rows) == [i \in 1..Len(rows) |-> rows[i].id]

\* C11: a list operation given a sort field the entity does not recognise
\* returns the matching rows in ascending id order, whichever direction was
\* asked for.
C11_UnknownSortIsIdAscending ==
    (ret # Pending /\ call.sort_by \notin RecognizedFields(call)) =>
        Ids(ret.items) = Ids(OffsetLimit(ById(Selected(call)), call.skip, call.limit))

----------------------------------------------------------------------------
(* Request parameters: the query-parameter classes of schemas.py, built by *)
(* Depends() before the handler runs.  A field that breaks a declared      *)
(* constraint is refused by request validation (status 422); a ValueError  *)
(* raised by a validator method is an exception no code of the application *)
(* handles (status 500).                                                   *)

OrderStatusValues == {s_pending, s_confirmed_, s_shipped, s_delivered, s_cancelled}

TooLong(v, max_length) == v # None /\ Len(v.s) > max_length

Negative(v) == v # None /\ v.f < 0

ProductQueryParams(q) ==
    IF \/ q.page < 1
       \/ q.size < 1 \/ q.size > 1000
       \/ TooLong(q.search, 255) \/ TooLong(q.category, 100) \/ TooLong(q.brand, 100)
       \/ Negative(q.min_price) \/ Negative(q.max_price)
       \/ q.sort_by \notin ProductSortFields
       \/ q.sort_order \notin SortOrders
    THEN Raise("RequestValidationError")
    ELSE IF q.max_price # None /\ q.min_price # None /\ q.max_price.f < q.min_price.f
    THEN Raise("ValueError")        \* validate_price_range
    ELSE Return(q)

UserQueryParams(q) ==
    IF \/ q.page < 1
       \/ q.size < 1 \/ q.size > 1000
       \/ TooLong(q.search, 255) \/ TooLong(q.city, 100) \/ TooLong(q.country, 100)
       \/ q.sort_by \notin UserSortFields
       \/ q.sort_order \notin SortOrders
    THEN Raise("RequestValidationError")
    ELSE Return(q)

OrderQueryParams(q) ==
    IF \/ q.page < 1
       \/ q.size < 1 \/ q.size > 1000
       \/ (q.user_id # None /\ q.user_id.i < 1)
       \/ (q.status # None /\ q.status.s \notin OrderStatusValues)
       \/ q.sort_by \notin OrderSortFields
       \/ q.sort_order \notin SortOrders
    THEN Raise("RequestValidationError")
    ELSE Return(q)

\* the response to a request whose parameter object could not be built
Refused(exc, st) ==
    [resp |-> IF exc = "RequestValidationError" THEN Response(422, None, "invalid")
                                                ELSE Response(500, None, "unhandled"),
     st |-> st]

\* GET /products with query parameters q
products_endpoint(q, st, t, rows, upGet, upSet, upDb) ==
    LET params == ProductQueryParams(q)
    IN  IF params.kind = "raise" THEN Refused(params.exc, st)
        ELSE get_products(params.v, st, t, rows, upGet, upSet, upDb)

\* GET /users with query parameters q
users_endpoint(q, st, t, rows, upGet, upSet, upDb) ==
    LET params == UserQueryParams(q)
    IN  IF params.kind = "raise" THEN Refused(params.exc, st)
        ELSE get_users(params.v, st, t, rows, upGet, upSet, upDb)

\* GET /orders with query parameters q
orders_endpoint(q, st, t, rows, userRows, productRows, upGet, upSet, upDb) ==
    LET params == OrderQueryParams(q)
    IN  IF params.kind = "raise" THEN Refused(params.exc, st)
        ELSE get_orders(params.v, st, t, rows, userRows, productRows,
                        upGet, upSet, upDb)

----------------------------------------------------------------------------
(* The list endpoints given any query parameters, good or bad, with the    *)
(* cache backend and the database up or down.                              *)

RawPagings == [page : {0, 1}, size : {0, 1, 1001}, sort_order : {s_asc, t_x}]

RawRequests ==
    {[op |-> "get_products",
      params |-> [page |-> g.page, size |-> g.size, sort_order |-> g.sort_order,
                  sort_by |-> s_id, search |-> None, category |-> None,
                  brand |-> None, min_price |-> r[1], max_price |-> r[2]]] :
        g \in RawPagings,
        r \in {<<None, None>>, <<PyFloat(105), PyFloat(200)>>,
               <<PyFloat(200), PyFloat(105)>>}}
    \cup
    {[op |-> "get_users",
      params |-> [page |-> g.page, size |-> g.size, sort_order |-> g.sort_order,
                  sort_by |-> s_id, search |-> None, city |-> None,
                  country |-> None]] :
        g \in RawPagings}
    \cup
    {[op |-> "get_orders",
      params |-> [page |-> g.page, size |-> g.size, sort_order |-> g.sort_order,
                  sort_by |-> s_id, user_id |-> u, status |-> None]] :
        g \in RawPagings, u \in {None, PyInt(0), PyInt(1)}}

InitRaw ==
    /\ ret = Pending
    /\ store = EmptyStore
    /\ now = 0
    /\ written = << >>
    /\ call \in RawRequests
    /\ \E n \in 0..MaxRows :
        /\ products = ProductTable(n)
        /\ users = UserTable(n)
        /\ orders = (IF n = 0 THEN {} ELSE OrderTable(1))

Answered(r, upGet, upSet, upDb) ==
    /\ ret' = [status |-> r.status, body |-> r.body, path |-> r.path,
               upGet |-> upGet, upSet |-> upSet, upDb |-> upDb]
    /\ UNCHANGED <<call, now, written, products, users, orders>>

RequestProducts(upGet, upSet, upDb) ==
    /\ call.op = "get_products"
    /\ LET r == products_endpoint(call.params, store, now, products, upGet, upSet, upDb)
       IN  Answered(r.resp, upGet, upSet, upDb) /\ store' = r.st

RequestUsers(upGet, upSet, upDb) ==
    /\ call.op = "get_users"
    /\ LET r == users_endpoint(call.params, store, now, users, upGet, upSet, upDb)
       IN  Answered(r.resp, upGet, upSet, upDb) /\ store' = r.st

RequestOrders(upGet, upSet, upDb) ==
    /\ call.op = "get_orders"
    /\ LET r == orders_endpoint(call.params, store, now, orders, users, products,
                                upGet, upSet, upDb)
       IN  Answered(r.resp, upGet, upSet, upDb) /\ store' = r.st

NextRaw ==
    \E upGet \in BOOLEAN, upSet \in BOOLEAN, upDb \in BOOLEAN :
        \/ RequestProducts(upGet, upSet, upDb)
        \/ RequestUsers(upGet, upSet, upDb)
        \/ RequestOrders(upGet, upSet, upDb)

SpecRaw == InitRaw /\ [][NextRaw]_vars

\* the request carries one of the caller input errors
InputError(c) ==
    \/ c.params.page < 1
    \/ c.params.size < 1 \/ c.params.size > 1000
    \/ c.params.sort_order \notin {s_asc, s_desc}
    \/ /\ c.op = "get_products"
       /\ c.params.min_price # None
       /\ c.params.max_price # None
       /\ c.params.max_price.f < c.params.min_price.f
    \/ /\ c.op = "get_orders"
       /\ c.params.user_id # None
       /\ c.params.user_id.i < 1

\* C12: a list request with a caller input error is answered with a
\* bad-request status whether or not the cache and the database are up (so
\* before any cache call or query), and the cache store stays as it was.
C12_InputErrorRejected ==
    (ret # Pending /\ InputError(call)) =>
        /\ ret.status \in {400, 422}
        /\ ret.path \in {"rejected", "invalid"}
        /\ store = EmptyStore

----------------------------------------------------------------------------
(* Dataset-wide mutations: DELETE /truncate-all and POST /seed-data.       *)
(* A database is a record of the three tables.  failAt = 0 is a run in     *)
(* which no statement fails; failAt = k is a failure of the k-th step.     *)

Db(productRows, userRows, orderRows) ==
    [products |-> productRows, users |-> userRows, orders |-> orderRows]

\* the tables as the open transaction sees them after the first k deletes
Deleted(db, k) ==
    Db(IF k >= 3 THEN {} ELSE db.products,
       IF k >= 2 THEN {} ELSE db.users,
       IF k >= 1 THEN {} ELSE db.orders)

\* a plausible slip: the deletes made before the failure stay
NoRollback(committed, work) == work

\* db.rollback()
Rollback(committed, work) == committed

TruncateSteps == 4      \* delete orders, delete users, delete products, commit

\* crud.truncate_all_data
truncate_all_data(db, failAt) ==
    IF failAt = 0
    THEN [db |-> Deleted(db, 3),
          result |-> [success |-> TRUE,
                      deleted_counts |-> [orders |-> Cardinality(db.orders),
                                          users |-> Cardinality(db.users),
                                          products |-> Cardinality(db.products)]]]
    ELSE [db |-> Rollback(db, Deleted(db, failAt - 1)),
          result |-> [success |-> FALSE,
                      deleted_counts |-> [orders |-> 0, users |-> 0, products |-> 0]]]

\* the response of a mutating endpoint
Done(status, body) == [status |-> status, body |-> body]

\* DELETE /truncate-all
truncate_all_data_endpoint(db, st, failAt, upKeys, upDelete) ==
    LET t == truncate_all_data(db, failAt)
        c == CacheManager_clear_pattern(st, <<"*">>, upKeys, upDelete)
    IN  [db |-> t.db,
         st |-> c.st,
         attempted |-> TRUE,
         resp |-> IF c.out.kind = "raise" THEN Done(500, None)
                  ELSE IF t.result.success
                  THEN Done(200, [deleted_counts |-> t.result.deleted_counts,
                                  cache_cleared |-> TRUE])
                  ELSE Done(500, None)]

SeedSteps == 3          \* seed_products, seed_users, seed_orders

\* seed_data.seed_all_data: each seed_* commits its rows before the next starts
seed_all_data(db, failAt) ==
    LET done == IF failAt = 0 THEN SeedSteps ELSE failAt - 1
        p    == IF done >= 1 THEN db.products \cup ProductTable(1) ELSE db.products
        u    == IF done >= 2 THEN db.users \cup UserTable(2) ELSE db.users
        o    == IF done >= 3 /\ u # {} /\ p # {}
                THEN db.orders \cup OrderTable(MaxRows) ELSE db.orders
    IN  [db |-> Db(p, u, o),
         out |-> IF failAt = 0 THEN Return(None) ELSE Raise("Exception")]

\* POST /seed-data
seed_database(db, st, failAt, upKeys, upDelete) ==
    LET r == seed_all_data(db, failAt)
        c == CacheManager_clear_pattern(st, <<"*">>, upKeys, upDelete)
    IN  IF r.out.kind = "raise"
        THEN [db |-> r.db, st |-> st, attempted |-> FALSE, resp |-> Done(500, None)]
        ELSE [db |-> r.db, st |-> c.st, attempted |-> TRUE,
              resp |-> IF c.out.kind = "raise" THEN Done(500, None)
                       ELSE Done(200, None)]

----------------------------------------------------------------------------
(* Lookups by id: GET /products/{id}, /users/{id}, /orders/{id}            *)

s_user_ == <<"u", "s", "e", "r", "_">>
s_order_ == <<"o", "r", "d", "e", "r", "_">>

item_ttl == 600

\* a plausible slip: a lookup that finds nothing caches that outcome
ItemLookAsideNegative(st, t, cache_key, found, upGet, upSet, upDb) ==
    LET cached_result == CacheManager_get(st, cache_key, upGet)
    IN  IF cached_result.kind = "raise"
        THEN [resp |-> Response(500, None, "error"), st |-> st]
        ELSE IF Truthy(cached_result.v)
        THEN [resp |-> Response(200, cached_result.v, "hit"), st |-> st]
        ELSE IF ~upDb
        THEN [resp |-> Response(500, None, "error"), st |-> st]
        ELSE IF found = {}
        THEN [resp |-> Response(404, None, "notfound"),
              st |-> CacheManager_set(st, t, cache_key, None, PyInt(item_ttl), upSet).st]
        ELSE LET item == CHOOSE d \in found : TRUE
                 r    == CacheManager_set(st, t, cache_key, item, PyInt(item_ttl), upSet)
             IN  IF r.out.kind = "raise"
                 THEN [resp |-> Response(500, None, "error"), st |-> r.st]
                 ELSE [resp |-> Response(200, item, "miss"), st |-> r.st]

\* the part of an id handler after the id check; found holds the dict of the row
\* the query returned, or nothing
ItemLookAside(st, t, cache_key, found, upGet, upSet, upDb) ==
    LET cached_result == CacheManager_get(st, cache_key, upGet)
    IN  IF cached_result.kind = "raise"
        THEN [resp |-> Response(500, None, "error"), st |-> st]
        ELSE IF Truthy(cached_result.v)
        THEN [resp |-> Response(200, cached_result.v, "hit"), st |-> st]
        ELSE IF ~upDb
        THEN [resp |-> Response(500, None, "error"), st |-> st]
        ELSE IF found = {}
        THEN [resp |-> Response(404, None, "notfound"), st |-> st]
        ELSE LET item == CHOOSE d \in found : TRUE
                 r    == CacheManager_set(st, t, cache_key, item, PyInt(item_ttl), upSet)
             IN  IF r.out.kind = "raise"
                 THEN [resp |-> Response(500, None, "error"), st |-> r.st]
                 ELSE [resp |-> Response(200, item, "miss"), st |-> r.st]

\* GET /products/{product_id}
get_product(product_id, st, t, rows, upGet, upSet, upDb) ==
    IF product_id < 1
    THEN [resp |-> Response(400, None, "rejected"), st |-> st]
    ELSE ItemLookAside(st, t, s_product_ \o IntStr(product_id),
                       {ProductItemDict(r) : r \in Related(rows, product_id)},
                       upGet, upSet, upDb)

\* GET /users/{user_id}
get_user(user_id, st, t, rows, upGet, upSet, upDb) ==
    IF user_id < 1
    THEN [resp |-> Response(400, None, "rejected"), st |-> st]
    ELSE ItemLookAside(st, t, s_user_ \o IntStr(user_id),
                       {UserItemDict(r) : r \in Related(rows, user_id)},
                       upGet, upSet, upDb)

\* GET /orders/{order_id}
get_order(order_id, st, t, rows, userRows, productRows, upGet, upSet, upDb) ==
    IF order_id < 1
    THEN [resp |-> Response(400, None, "rejected"), st |-> st]
    ELSE ItemLookAside(st, t, s_order_ \o IntStr(order_id),
                       {OrderItemDict(r, userRows, productRows) :
                            r \in Related(rows, order_id)},
                       upGet, upSet, upDb)

----------------------------------------------------------------------------
(* Specification SpecApp: the application serving reads while the dataset   *)
(* is seeded and truncated.  Requests run in worker threads: a read that    *)
(* missed the cache has queried the database when another request runs, and *)
(* calls cache.set afterwards.  A mutation is one step: the steps of other  *)
(* requests that fall inside it are those of a read that holds its query    *)
(* result, which the model has.  The database starts as the tables          *)
(* create_all made, empty and with unused id sequences, and is seeded once. *)

MaxMutations == 2   \* mutation requests in a behaviour

\* the read the clients repeat
AppRequests ==
    {[op |-> "get_products", id |-> 0,
      params |-> [page |-> 1, size |-> 1, sort_by |-> s_id, sort_order |-> s_asc,
                  min_price |-> None, max_price |-> None, search |-> None,
                  category |-> None, brand |-> None]],
     [op |-> "get_users", id |-> 0,
      params |-> [page |-> 1, size |-> 1, sort_by |-> s_id, sort_order |-> s_asc,
                  search |-> None, city |-> None, country |-> None]],
     [op |-> "get_orders", id |-> 0,
      params |-> [page |-> 1, size |-> 1, sort_by |-> s_id, sort_order |-> s_asc,
                  user_id |-> None, status |-> None]],
     [op |-> "get_product", id |-> 1, params |-> << >>],
     [op |-> "get_user", id |-> 1, params |-> << >>],
     [op |-> "get_order", id |-> 1, params |-> << >>]}

\* no read holds a query result
Idle == [stage |-> "idle", key |-> << >>, ttl |-> 0, body |-> None, start |-> 0]

InitApp ==
    /\ \E c \in AppRequests : call = [req |-> c, read |-> Idle]
    /\ ret = Pending
    /\ store = EmptyStore
    /\ now = 0
    /\ written = [muts |-> 0, last |-> "none", seeded |-> FALSE, entry |-> None,
                  cacheUp |-> TRUE]
    /\ products = {}
    /\ users = {}
    /\ orders = {}

\* a read reaches its cache.set holding the response r it built, or ends with r
Queried(r, key, ttl, upGet, upSet, upDb) ==
    /\ IF r.resp.path = "miss"
       THEN /\ call' = [call EXCEPT !.read = [stage |-> "queried", key |-> key,
                                              ttl |-> ttl, body |-> r.resp.body,
                                              start |-> written.muts]]
            /\ UNCHANGED <<ret, store>>
       ELSE /\ ret' = [op |-> call.req.op, status |-> r.resp.status,
                       body |-> r.resp.body, path |-> r.resp.path,
                       start |-> written.muts, after |-> written.last,
                       upSet |-> upSet, upDb |-> upDb]
            /\ store' = r.st
            /\ UNCHANGED call
    /\ written' = [written EXCEPT !.cacheUp = @ /\ upGet]
    /\ UNCHANGED <<now, products, users, orders>>

StartProducts(upGet, upSet, upDb) ==
    /\ call.req.op = "get_products"
    /\ call.read.stage = "idle"
    /\ LET r == get_products(call.req.params, store, now, products, upGet, upSet, upDb)
       IN  Queried(r, ProductsCacheKey(call.req.params), list_ttl, upGet, upSet, upDb)

StartUsers(upGet, upSet, upDb) ==
    /\ call.req.op = "get_users"
    /\ call.read.stage = "idle"
    /\ LET r == get_users(call.req.params, store, now, users, upGet, upSet, upDb)
       IN  Queried(r, UsersCacheKey(call.req.params), list_ttl, upGet, upSet, upDb)

StartOrders(upGet, upSet, upDb) ==
    /\ call.req.op = "get_orders"
    /\ call.read.stage = "idle"
    /\ LET r == get_orders(call.req.params, store, now, orders, users, products,
                           upGet, upSet, upDb)
       IN  Queried(r, OrdersCacheKey(call.req.params), list_ttl, upGet, upSet, upDb)

StartProduct(upGet, upSet, upDb) ==
    /\ call.req.op = "get_product"
    /\ call.read.stage = "idle"
    /\ LET r == get_product(call.req.id, store, now, products, upGet, upSet, upDb)
       IN  Queried(r, s_product_ \o IntStr(call.req.id), item_ttl, upGet, upSet, upDb)

StartUser(upGet, upSet, upDb) ==
    /\ call.req.op = "get_user"
    /\ call.read.stage = "idle"
    /\ LET r == get_user(call.req.id, store, now, users, upGet, upSet, upDb)
       IN  Queried(r, s_user_ \o IntStr(call.req.id), item_ttl, upGet, upSet, upDb)

StartOrder(upGet, upSet, upDb) ==
    /\ call.req.op = "get_order"
    /\ call.read.stage = "idle"
    /\ LET r == get_order(call.req.id, store, now, orders, users, products,
                          upGet, upSet, upDb)
       IN  Queried(r, s_order_ \o IntStr(call.req.id), item_ttl, upGet, upSet, upDb)

\* cache.set(cache_key, response_data, ttl) and return response_data
FinishRead(upSet) ==
    /\ call.read.stage = "queried"
    /\ LET r == CacheManager_set(store, now, call.read.key, call.read.body,
                                 PyInt(call.read.ttl), upSet)
       IN  /\ store' = r.st
           /\ written' = [written EXCEPT
                             !.entry = IF r.out = Return(PyBool(TRUE))
                                       THEN call.read.body ELSE @,
                             !.cacheUp = @ /\ upSet]
    /\ ret' = [op |-> call.req.op, status |-> 200, body |-> call.read.body,
               path |-> "miss", start |-> call.read.start, after |-> written.last,
               upSet |-> upSet, upDb |-> TRUE]
    /\ call' = [call EXCEPT !.read = Idle]
    /\ UNCHANGED <<now, products, users, orders>>

\* the outcome r of a mutating endpoint becomes the state and the response
Mutated(op, r, failAt, upKeys, upDelete) ==
    /\ products' = r.db.products
    /\ users' = r.db.users
    /\ orders' = r.db.orders
    /\ store' = r.st
    /\ ret' = [op |-> op, status |-> r.resp.status, body |-> r.resp.body,
               failAt |-> failAt, attempted |-> r.attempted]
    /\ written' = [written EXCEPT
                      !.muts = @ + 1,
                      !.last = IF r.resp.status = 200 THEN op \o "_ok"
                               ELSE op \o "_failed",
                      !.seeded = @ \/ op = "seed",
                      !.cacheUp = @ /\ upKeys /\ upDelete]
    /\ UNCHANGED <<call, now>>

TruncateAll(failAt, upKeys, upDelete) ==
    /\ written.muts < MaxMutations
    /\ LET r == truncate_all_data_endpoint(Db(products, users, orders), store,
                                           failAt, upKeys, upDelete)
       IN  Mutated("truncate", r, failAt, upKeys, upDelete)

SeedData(failAt, upKeys, upDelete) ==
    /\ written.muts < MaxMutations
    /\ ~written.seeded
    /\ LET r == seed_database(Db(products, users, orders), store,
                              failAt, upKeys, upDelete)
       IN  Mutated("seed", r, failAt, upKeys, upDelete)

NextApp ==
    \/ \E upGet \in BOOLEAN, upSet \in BOOLEAN, upDb \in BOOLEAN :
          \/ StartProducts(upGet, upSet, upDb)
          \/ StartUsers(upGet, upSet, upDb)
          \/ StartOrders(upGet, upSet, upDb)
          \/ StartProduct(upGet, upSet, upDb)
          \/ StartUser(upGet, upSet, upDb)
          \/ StartOrder(upGet, upSet, upDb)
    \/ \E upSet \in BOOLEAN : FinishRead(upSet)
    \/ \E failAt \in 0..TruncateSteps, upKeys \in BOOLEAN, upDelete \in BOOLEAN :
          TruncateAll(failAt, upKeys, upDelete)
    \/ \E failAt \in 0..SeedSteps, upKeys \in BOOLEAN, upDelete \in BOOLEAN :
          SeedData(failAt, upKeys, upDelete)

SpecApp == InitApp /\ [][NextApp]_vars

ListOps == {"get_products", "get_users", "get_orders"}
ItemOps == {"get_product", "get_user", "get_order"}

\* the last request answered was a read of one of `ops`
ReadOf(ops) == ret # Pending /\ ret.op \in ops

\* the last request answered was the mutation `op`
MutationOf(op) == ret # Pending /\ ret.op = op

\* C13: a successful truncate-all reports the number of rows each table held, and
\* a list request that starts after its response, whatever was cached before,
\* returns total = 0.
C13_TruncateCountsAndEmptyLists ==
    [][/\ (written'.muts # written.muts /\ ret'.op = "truncate" /\ ret'.status = 200)
            => ret'.body.deleted_counts = [orders |-> Cardinality(orders),
                                           users |-> Cardinality(users),
                                           products |-> Cardinality(products)]
       /\ (/\ ret' # ret
           /\ ret'.op \in ListOps
           /\ ret'.status = 200
           /\ ret'.after = "truncate_ok"
           /\ ret'.start = written.muts)
            => Field(ret'.body, s_total) = PyInt(0)]_vars

\* the response the request gets from the tables as they are, with nothing cached
FromTables(c) ==
    CASE c.op = "get_products" ->
            get_products(c.params, EmptyStore, now, products, TRUE, TRUE, TRUE).resp
      [] c.op = "get_users" ->
            get_users(c.params, EmptyStore, now, users, TRUE, TRUE, TRUE).resp
      [] c.op = "get_orders" ->
            get_orders(c.params, EmptyStore, now, orders, users, products,
                       TRUE, TRUE, TRUE).resp
      [] c.op = "get_product" ->
            get_product(c.id, EmptyStore, now, products, TRUE, TRUE, TRUE).resp
      [] c.op = "get_user" ->
            get_user(c.id, EmptyStore, now, users, TRUE, TRUE, TRUE).resp
      [] c.op = "get_order" ->
            get_order(c.id, EmptyStore, now, orders, users, products,
                      TRUE, TRUE, TRUE).resp

\* C14: with every cache command succeeding, a read that starts after a mutation
\* request has returned and is served from the cache gets the payload the data
\* gives after the mutation, never one computed from the data before it.
C14_NoStaleHitAfterMutation ==
    (/\ ReadOf(ListOps \cup ItemOps)
     /\ ret.path = "hit"
     /\ ret.start >= 1
     /\ written.cacheUp)
    => /\ FromTables(call.req).status = 200
       /\ ret.body = FromTables(call.req).body

\* C15: every dataset-wide mutation request, truncate-all or seed, attempts the
\* bulk invalidation clear_pattern("*"), also when the mutation failed partway
\* with some of its changes committed.
C15_InvalidationAlwaysAttempted ==
    (MutationOf("truncate") \/ MutationOf("seed")) => ret.attempted

\* C16: truncate-all is all-or-nothing: when a step of truncate_all_data fails,
\* the three tables keep exactly the rows they had, the caller gets status 500,
\* and the response reports no deleted count.
C16_TruncateAllOrNothing ==
    [][(written'.muts # written.muts /\ ret'.op = "truncate" /\ ret'.failAt # 0)
        => /\ products' = products
           /\ users' = users
           /\ orders' = orders
           /\ ret'.status = 500
           /\ ret'.body = None]_vars

\* a truncate failed at its commit, after the three deletes, on seeded tables
C16_Witness ==
    /\ MutationOf("truncate")
    /\ ret.failAt = TruncateSteps
    /\ ret.status = 500
    /\ products # {}
    /\ users # {}
    /\ orders # {}

\* C17: a truncate-all response with cache_cleared = true is given only when the
\* clear_pattern("*") of that request succeeded, so the cache holds no entry when
\* the clear has completed.
C17_CacheClearedIsTrue ==
    (MutationOf("truncate") /\ ret.status = 200 /\ ret.body.cache_cleared)
    => store = EmptyStore

\* the rows the id of the request resolves to
Resolved(c) ==
    CASE c.op = "get_product" -> Related(products, c.id)
      [] c.op = "get_user"    -> Related(users, c.id)
      [] c.op = "get_order"   -> Related(orders, c.id)

\* C18: an id lookup whose id resolves to no row returns not-found (404, not the
\* 400 of a bad request) in every reachable state, also after a truncate-all
\* whose cache invalidation failed.  A lookup that could not reach the database
\* is left out: it cannot tell whether the row exists.  The tables are those of
\* the whole request: no mutation returned between its start and its response.
C18_MissingIdIsNotFound ==
    (/\ ReadOf(ItemOps)
     /\ ret.upDb
     /\ ret.start = written.muts
     /\ Resolved(call.req) = {})
    => (ret.status = 404 /\ ret.path = "notfound")

\* C19: a read whose storage query fails ends with status 500, and an id lookup
\* that finds no row ends with status 404; neither performs a cache set: the
\* store after the request is the store before it.
C19_FailedReadLeavesCache ==
    [][(/\ ret' # ret
        /\ ret'.op \in ListOps \cup ItemOps
        /\ ret'.path \in {"error", "notfound"})
        => /\ store' = store
           /\ ret'.path = "error" => ret'.status = 500
           /\ ret'.path = "notfound" => (ret'.status = 404 /\ ret'.op \in ItemOps)]_vars

\* a lookup of a deleted row ended in not-found with Redis accepting writes
C19_Witness ==
    /\ ReadOf(ItemOps)
    /\ ret.path = "notfound"
    /\ ret.status = 404
    /\ ret.upSet
    /\ ret.after = "truncate_ok"
    /\ store = EmptyStore

\* C20: the response served from a cache hit equals, field for field, the
\* response the miss-path request returned when it populated the entry.
C20_HitEqualsPopulatingResponse ==
    (ReadOf(ListOps \cup ItemOps) /\ ret.path = "hit") => ret.body = written.entry

\* a product with a fractional price and timestamps, served from the cache
C20_Witness ==
    /\ ReadOf({"get_product"})
    /\ ret.path = "hit"
    /\ ret.status = 200
    /\ Field(ret.body, s_price) = PyFloat(105)
    /\ Field(ret.body, s_created_at).t = "str"
    /\ written.entry = ProductItemDict(ProductRow(1))

----------------------------------------------------------------------------
(* Specification SpecRefs: orders read from a database in which a user or a *)
(* product an order refers to may be missing.  The application deletes rows *)
(* only all at once, so such tables are those of a database that does not   *)
(* enforce the foreign keys or that another program writes to.              *)

RefRequests ==
    {[op |-> "get_orders", id |-> 0,
      params |-> [page |-> g.page, size |-> g.size, sort_by |-> s_id,
                  sort_order |-> s_asc, user_id |-> None, status |-> None]] :
        g \in Pagings}
    \cup {[op |-> "get_order", id |-> i, params |-> << >>] : i \in 1..MaxRows}

InitRefs ==
    /\ call \in RefRequests
    /\ ret = Pending
    /\ store = EmptyStore
    /\ now = 0
    /\ written = << >>
    /\ \E n \in 1..MaxRows : orders = OrderTable(n)
    /\ users \in SUBSET UserTable(2)
    /\ products \in SUBSET ProductTable(1)

LookupOrder(upGet, upSet) ==
    /\ call.op = "get_order"
    /\ LET r == get_order(call.id, store, now, orders, users, products,
                          upGet, upSet, TRUE)
       IN  Served(r.resp, upGet, upSet) /\ store' = r.st

NextRefs ==
    \E upGet \in BOOLEAN, upSet \in BOOLEAN :
        \/ ListOrders(upGet, upSet)
        \/ LookupOrder(upGet, upSet)

SpecRefs == InitRefs /\ [][NextRefs]_vars

\* what the user/product field of an order dict must be: the referenced row's
\* fields when the reference resolves, null when it does not
Expanded(rows, id, dict(_)) ==
    IF Related(rows, id) = {} THEN None ELSE dict(CHOOSE r \in rows : r.id = id)

\* the order dict d gives the user and the product of the order it is about
RefsExpanded(d) ==
    LET o == CHOOSE r \in orders : r.id = Field(d, s_id).i
    IN  /\ Field(d, s_user) = Expanded(users, o.user_id, UserItemDict)
        /\ Field(d, s_product) = Expanded(products, o.product_id, ProductItemDict)

\* C21: an order lookup, and every item of an order list, is returned with
\* status 200 whether or not its user and product resolve: a reference that does
\* not resolve gives null in its field, and the other field is populated as usual.
C21_UnresolvedReferenceIsNull ==
    /\ (ret # Pending /\ call.op = "get_order" /\ Related(orders, call.id) # {})
        => (ret.status = 200 /\ RefsExpanded(ret.body))
    /\ (ret # Pending /\ call.op = "get_orders")
        => /\ ret.status = 200
           /\ \A i \in 1..Len(Field(ret.body, s_items).l) :
                 RefsExpanded(Field(ret.body, s_items).l[i])

\* order 2 refers to user 2, who is missing, and to product 1, who is there
C21_Witness ==
    /\ ret # Pending
    /\ call.op = "get_order"
    /\ call.id = 2
    /\ Related(users, 2) = {}
    /\ ret.status = 200
    /\ Field(ret.body, s_user) = None
    /\ Field(ret.body, s_product) = ProductItemDict(ProductRow(1))

----------------------------------------------------------------------------
(* Specification SpecSession: clients send product list requests one after *)
(* another to the same cache; free-text filters may hold any characters.    *)

t_y_page1_search_x ==
    <<"y", "&", "p", "a", "g", "e", "=", "1", "&", "s", "e", "a", "r", "c", "h", "=", "x">>
t_x_page2 == <<"x", "&", "p", "a", "g", "e", "=", "2">>

ProductPage(page, category, search) ==
    [op |-> "get_products",
     params |-> [page |-> page, size |-> 1, sort_by |-> s_id, sort_order |-> s_asc,
                 min_price |-> None, max_price |-> None, search |-> search,
                 category |-> category, brand |-> None]]

SessionRequests ==
    {ProductPage(1, PyStr(t_y), None),
     ProductPage(2, PyStr(t_y), None),
     ProductPage(1, PyStr(t_y), PyStr(t_x_page2)),
     ProductPage(2, PyStr(t_y_page1_search_x), None)}

InitSession ==
    /\ call \in SessionRequests
    /\ ret = Pending
    /\ store = EmptyStore
    /\ now = 0
    /\ written = << >>
    /\ \E n \in 0..MaxRows : products = ProductTable(n)
    /\ users = {}
    /\ orders = {}

\* the request the client sent last is handled, and the client picks the next one
SessionProducts(next, upGet, upSet) ==
    /\ LET r == get_products(call.params, store, now, products, upGet, upSet, TRUE)
       IN  /\ ret' = [status |-> r.resp.status, body |-> r.resp.body,
                      path |-> r.resp.path, of |-> call]
           /\ store' = r.st
    /\ call' = next
    /\ UNCHANGED <<now, written, products, users, orders>>

NextSession ==
    \E next \in SessionRequests, upGet \in BOOLEAN, upSet \in BOOLEAN :
        SessionProducts(next, upGet, upSet)

SpecSession == InitSession /\ [][NextSession]_vars

\* C22: the page and size fields of the response to a valid list request are the
\* page and size of the request, although crud recomputes the page from the
\* skip the handler derived from them.
C22_PageAndSizeEchoed ==
    ret # Pending =>
        /\ ret.status = 200
        /\ Field(ret.body, s_page) = PyInt(ret.of.params.page)
        /\ Field(ret.body, s_size) = PyInt(ret.of.params.size)

----------------------------------------------------------------------------
(* The slice a list operation of crud.py returns, over SpecCrud             *)

\* row r has the value every filter of the call that was supplied asks for
Supplied(c, r) ==
    /\ c.filter # None =>
          CASE c.op = "get_products" -> r.category = c.filter.s
            [] c.op = "get_users"    -> r.city = c.filter.s
            [] c.op = "get_orders"   -> r.status = c.filter.s
    /\ c.min_price # None => r.price >= c.min_price.f
    /\ c.max_price # None => r.price <= c.max_price.f

Model(c) ==
    CASE c.op = "get_products" -> "Product"
      [] c.op = "get_users"    -> "User"
      [] c.op = "get_orders"   -> "Order"

\* rows a, b, in this order, agree with the sort the call asked for
InOrder(c, a, b) ==
    ~Before(SortColumn(Model(c), b, c.sort_by), SortColumn(Model(c), a, c.sort_by),
            c.sort_by, c.sort_order = s_desc)

\* the number of rows in the slice [skip, skip + limit) of T rows
SliceLen(T, skip, limit) ==
    IF skip >= T THEN 0 ELSE IF T - skip < limit THEN T - skip ELSE limit

\* C23: the items of a list result are the slice [skip, skip + limit) of the rows
\* that satisfy every supplied filter (price bounds inclusive), in the order of
\* the requested sort field and direction: every item satisfies the filters, is
\* a different row of the table, consecutive items are in sort order, and there
\* are as many as the slice holds, at most limit.
C23_ItemsAreTheSortedSlice ==
    (ret # Pending /\ call.sort_by \in RecognizedFields(call)) =>
        LET items == ret.items
            T     == Cardinality({r \in FullScan(call) : Supplied(call, r)})
        IN  /\ \A i \in 1..Len(items) :
                  items[i] \in FullScan(call) /\ Supplied(call, items[i])
            /\ \A i, j \in 1..Len(items) : items[i] = items[j] => i = j
            /\ \A i \in 1..(Len(items) - 1) : InOrder(call, items[i], items[i + 1])
            /\ Len(items) = SliceLen(T, call.skip, call.limit)
            /\ Len(items) <= call.limit

----------------------------------------------------------------------------
(* Specification SpecRace: two requests for the same list, hence the same   *)
(* cache key, run at the same time, each through cache.get, its query and   *)
(* cache.set, while the dataset may be seeded in between.                   *)

Racers == {1, 2}

\* a request that has not started
Arrived == [pc |-> "arrived", body |-> None, status |-> 0, path |-> "none"]

InitRace ==
    /\ \/ \E c \in AppRequests :
             /\ c.op = "get_products"
             /\ call = [op |-> c.op, params |-> c.params,
                        key |-> ProductsCacheKey(c.params)]
       \/ \E c \in AppRequests :
             /\ c.op = "get_users"
             /\ call = [op |-> c.op, params |-> c.params,
                        key |-> UsersCacheKey(c.params)]
       \/ \E c \in AppRequests :
             /\ c.op = "get_orders"
             /\ call = [op |-> c.op, params |-> c.params,
                        key |-> OrdersCacheKey(c.params)]
    /\ ret = [i \in Racers |-> Arrived]
    /\ store = EmptyStore
    /\ now = 0
    /\ written = [last |-> None, seeded |-> FALSE]
    /\ products = {}
    /\ users = {}
    /\ orders = {}

\* cached_result = cache.get(cache_key); if cached_result: return cached_result
RaceGet(i, up) ==
    /\ ret[i].pc = "arrived"
    /\ LET cached_result == CacheManager_get(store, call.key, up)
       IN  ret' = [ret EXCEPT ![i] =
                      IF Truthy(cached_result.v)
                      THEN [pc |-> "done", body |-> cached_result.v,
                            status |-> 200, path |-> "hit"]
                      ELSE [@ EXCEPT !.pc = "missed"]]
    /\ UNCHANGED <<call, store, now, written, products, users, orders>>

\* the query and the building of response_data
Built(i, response_data) ==
    /\ ret' = [ret EXCEPT ![i] = [@ EXCEPT !.pc = "queried", !.body = response_data]]
    /\ UNCHANGED <<call, store, now, written, products, users, orders>>

RaceQueryProducts(i) ==
    /\ ret[i].pc = "missed"
    /\ call.op = "get_products"
    /\ Built(i, ProductsLive(products, call.params))

RaceQueryUsers(i) ==
    /\ ret[i].pc = "missed"
    /\ call.op = "get_users"
    /\ Built(i, UsersLive(users, call.params))

RaceQueryOrders(i) ==
    /\ ret[i].pc = "missed"
    /\ call.op = "get_orders"
    /\ Built(i, OrdersLive(orders, users, products, call.params))

\* cache.set(cache_key, response_data, ttl=300); return response_data
RaceSet(i, up) ==
    /\ ret[i].pc = "queried"
    /\ LET r == CacheManager_set(store, now, call.key, ret[i].body, PyInt(list_ttl), up)
       IN  /\ store' = r.st
           /\ written' = [written EXCEPT !.last = IF r.out = Return(PyBool(TRUE))
                                                  THEN ret[i].body ELSE @]
    /\ ret' = [ret EXCEPT ![i] = [@ EXCEPT !.pc = "done", !.status = 200,
                                           !.path = "miss"]]
    /\ UNCHANGED <<call, now, products, users, orders>>

\* POST /seed-data, run by a third client
RaceSeed(upKeys, upDelete) ==
    /\ ~written.seeded
    /\ LET r == seed_database(Db(products, users, orders), store, 0, upKeys, upDelete)
       IN  /\ products' = r.db.products
           /\ users' = r.db.users
           /\ orders' = r.db.orders
           /\ store' = r.st
           /\ written' = [last |-> IF r.st = EmptyStore THEN None ELSE written.last,
                          seeded |-> TRUE]
    /\ UNCHANGED <<call, ret, now>>

NextRace ==
    \/ \E i \in Racers, up \in BOOLEAN : RaceGet(i, up)
    \/ \E i \in Racers : RaceQueryProducts(i)
    \/ \E i \in Racers : RaceQueryUsers(i)
    \/ \E i \in Racers : RaceQueryOrders(i)
    \/ \E i \in Racers, up \in BOOLEAN : RaceSet(i, up)
    \/ \E upKeys \in BOOLEAN, upDelete \in BOOLEAN : RaceSeed(upKeys, upDelete)

SpecRace == InitRace /\ [][NextRace]_vars

\* both requests missed, queried, set and returned
BothPopulated == \A i \in Racers : ret[i].pc = "done" /\ ret[i].path = "miss"

\* C24: when two requests for the same key both miss and both query and set,
\* both return status 200 under every interleaving, and the entry of the key
\* then holds the payload of the last set that was stored, which is one of the
\* two payloads whole, never a mixture.
C24_MissRaceLastSetWins ==
    BothPopulated =>
        /\ \A i \in Racers : ret[i].status = 200
        /\ IF written.last = None
           THEN call.key \notin DOMAIN store
           ELSE /\ written.last \in {ret[i].body : i \in Racers}
                /\ CacheManager_get(store, call.key, TRUE) = Return(written.last)

\* the two requests built different payloads, around a seed, and the older one
\* was set last
C24_Witness ==
    /\ BothPopulated
    /\ ret[1].body # ret[2].body
    /\ Field(ret[1].body, s_total) = PyInt(0)
    /\ written.seeded
    /\ CacheManager_get(store, call.key, TRUE) = Return(ret[1].body)

----------------------------------------------------------------------------
(* GET /stats                                                               *)

s_total_products == <<"t", "o", "t", "a", "l", "_", "p", "r", "o", "d", "u", "c", "t", "s">>
s_total_users == <<"t", "o", "t", "a", "l", "_", "u", "s", "e", "r", "s">>
s_total_orders == <<"t", "o", "t", "a", "l", "_", "o", "r", "d", "e", "r", "s">>
s_active_products == <<"a", "c", "t", "i", "v", "e", "_", "p", "r", "o", "d", "u", "c", "t", "s">>
s_active_users == <<"a", "c", "t", "i", "v", "e", "_", "u", "s", "e", "r", "s">>

stats_ttl == 60

\* the five counts of get_stats
StatsDict(db) ==
    PyDict(<<<<s_total_products, PyInt(Cardinality(db.products))>>,
             <<s_total_users, PyInt(Cardinality(db.users))>>,
             <<s_total_orders, PyInt(Cardinality(db.orders))>>,
             <<s_active_products,
               PyInt(Cardinality({r \in db.products : r.is_active}))>>,
             <<s_active_users, PyInt(Cardinality({r \in db.users : r.is_active}))>>>>)

\* GET /stats
get_stats(st, t, db, upGet, upSet, upDb) ==
    LET cached_result == CacheManager_get(st, s_stats, upGet)
    IN  IF cached_result.kind = "raise"
        THEN [resp |-> Response(500, None, "error"), st |-> st]
        ELSE IF Truthy(cached_result.v)
        THEN [resp |-> Response(200, cached_result.v, "hit"), st |-> st]
        ELSE IF ~upDb
        THEN [resp |-> Response(500, None, "error"), st |-> st]
        ELSE LET stats == StatsDict(db)
                 r     == CacheManager_set(st, t, s_stats, stats, PyInt(stats_ttl), upSet)
             IN  IF r.out.kind = "raise"
                 THEN [resp |-> Response(500, None, "error"), st |-> r.st]
                 ELSE [resp |-> Response(200, stats, "miss"), st |-> r.st]

----------------------------------------------------------------------------
(* Specification SpecTtl: one read repeated over a seeded dataset while the *)
(* Redis clock advances and entries expire.  The clock is followed second   *)
(* by second up to MaxNow, and from then on to the last second and to the   *)
(* expiry of an entry that was populated in those first seconds.            *)

StatsRequest == [op |-> "get_stats", id |-> 0, params |-> << >>]

\* never populated
Never == 0 - 1

InitTtl ==
    /\ call \in AppRequests \cup {StatsRequest}
    /\ ret = Pending
    /\ store = EmptyStore
    /\ now = 0
    /\ written = [at |-> Never, before |-> Never]
    /\ products = ProductTable(1)
    /\ users = UserTable(2)
    /\ orders = OrderTable(MaxRows)

\* the handler's outcome r becomes the response and the cache contents
Observed(r) ==
    /\ ret' = [op |-> call.op, status |-> r.resp.status, body |-> r.resp.body,
               path |-> r.resp.path, at |-> now]
    /\ store' = r.st
    /\ written' = IF r.resp.path = "miss" /\ r.st # store
                  THEN [at |-> now, before |-> written.at]
                  ELSE written
    /\ UNCHANGED <<call, now, products, users, orders>>

TtlProducts(upGet, upSet) ==
    /\ call.op = "get_products"
    /\ LET r == get_products(call.params, store, now, products, upGet, upSet, TRUE)
       IN  Observed(r)

TtlUsers(upGet, upSet) ==
    /\ call.op = "get_users"
    /\ LET r == get_users(call.params, store, now, users, upGet, upSet, TRUE)
       IN  Observed(r)

TtlOrders(upGet, upSet) ==
    /\ call.op = "get_orders"
    /\ LET r == get_orders(call.params, store, now, orders, users, products,
                           upGet, upSet, TRUE)
       IN  Observed(r)

TtlProduct(upGet, upSet) ==
    /\ call.op = "get_product"
    /\ LET r == get_product(call.id, store, now, products, upGet, upSet, TRUE)
       IN  Observed(r)

TtlUser(upGet, upSet) ==
    /\ call.op = "get_user"
    /\ LET r == get_user(call.id, store, now, users, upGet, upSet, TRUE)
       IN  Observed(r)

TtlOrder(upGet, upSet) ==
    /\ call.op = "get_order"
    /\ LET r == get_order(call.id, store, now, orders, users, products,
                          upGet, upSet, TRUE)
       IN  Observed(r)

TtlStats(upGet, upSet) ==
    /\ call.op = "get_stats"
    /\ LET r == get_stats(store, now, Db(products, users, orders), upGet, upSet, TRUE)
       IN  Observed(r)

\* the last second and the expiry of the entries populated in the first seconds
Expiries ==
    IF written.at # Never /\ written.at <= MaxNow
    THEN UNION {{store[k].exp - 1, store[k].exp} : k \in DOMAIN store}
    ELSE {}

\* the instants the clock is moved to
Instants == {t \in (IF now < MaxNow THEN {now + 1} ELSE {}) \cup Expiries : t > now}

\* time passes; Redis drops the entries whose expiry is reached
Pass(t) ==
    /\ t \in Instants
    /\ now' = t
    /\ store' = Unexpired(store, t)
    /\ UNCHANGED <<call, ret, written, products, users, orders>>

\* DELETE /truncate-all, once
Invalidate(upKeys, upDelete) ==
    /\ products # {}
    /\ LET r == truncate_all_data_endpoint(Db(products, users, orders), store,
                                           0, upKeys, upDelete)
       IN  /\ products' = r.db.products
           /\ users' = r.db.users
           /\ orders' = r.db.orders
           /\ store' = r.st
           /\ ret' = [op |-> "truncate", status |-> r.resp.status, body |-> r.resp.body,
                      path |-> "none", at |-> now]
           /\ written' = IF r.st = EmptyStore /\ store # EmptyStore
                         THEN [at |-> Never, before |-> written.at]
                         ELSE written
    /\ UNCHANGED <<call, now>>

NextTtl ==
    \/ \E upGet \in BOOLEAN, upSet \in BOOLEAN :
          \/ TtlProducts(upGet, upSet)
          \/ TtlUsers(upGet, upSet)
          \/ TtlOrders(upGet, upSet)
          \/ TtlProduct(upGet, upSet)
          \/ TtlUser(upGet, upSet)
          \/ TtlOrder(upGet, upSet)
          \/ TtlStats(upGet, upSet)
    \/ \E t \in Instants : Pass(t)
    \/ \E upKeys \in BOOLEAN, upDelete \in BOOLEAN : Invalidate(upKeys, upDelete)

SpecTtl == InitTtl /\ [][NextTtl]_vars

\* a step of a read handler: it answers the request at the current instant
ReadStep == now' = now /\ ret'.op = call.op

\* the entries of st2 that st1 does not hold with the same value and expiry
Written(st1, st2) == {k \in DOMAIN st2 : k \notin DOMAIN st1 \/ st2[k] # st1[k]}

(* C25: a read served from a cache hit leaves the cache store unchanged     *)
(* (the entry's value is not rewritten and its expiry is not extended); an  *)
(* entry appears or changes only in a read that missed and populated it,    *)
(* and disappears only when its expiry is reached or in the bulk            *)
(* invalidation of the truncate endpoint.                                   *)
C25_HitLeavesCacheUnchanged ==
    [][ /\ (ReadStep /\ ret'.path = "hit") => store' = store
        /\ Written(store, store') # {} => (ReadStep /\ ret'.path = "miss")
        /\ \A k \in DOMAIN store \ DOMAIN store' :
              \/ now' > now /\ store[k].exp <= now'
              \/ now' = now /\ ret'.op = "truncate" ]_vars

\* a hit in the last second of an entry, which keeps its expiry
C25_Witness ==
    /\ ret # Pending
    /\ ret.path = "hit"
    /\ ret.at = now
    /\ now > MaxNow
    /\ \E k \in DOMAIN store : store[k].exp = now + 1

\* the lifetime stated for the entries of each endpoint, in seconds
StatedLifetime(op) ==
    IF op \in ListOps THEN 300
    ELSE IF op \in ItemOps THEN 600
    ELSE 60

(* C27: an entry populated by a list endpoint is served as a hit only in    *)
(* the 300 seconds after it was populated, one populated by a lookup by id  *)
(* only in the 600 seconds after, and the stats entry only in the 60        *)
(* seconds after; a request made once that time has passed is not served    *)
(* from the cache: it runs the query against the tables.                    *)
C27_EntryLifetimePerEndpoint ==
    [][ ReadStep =>
          /\ ret'.path = "hit" =>
                /\ written.at # Never
                /\ now < written.at + StatedLifetime(call.op)
          /\ (written.at # Never /\ now >= written.at + StatedLifetime(call.op)) =>
                ret'.path \in {"miss", "notfound"} ]_vars

\* the stats entry is populated again 60 seconds after it was populated
C27_Witness ==
    /\ ret # Pending
    /\ ret.op = "get_stats"
    /\ ret.path = "miss"
    /\ written.before # Never
    /\ ret.at = written.before + 60
    /\ written.at = ret.at

----------------------------------------------------------------------------
(* Specification SpecStatus: GET /orders filtered by status over the orders *)
(* that seed_orders writes.                                                 *)

\* seed_data.seed_orders: the values an order's status is drawn from
statuses == {s_pending, s_processing, s_shipped, s_delivered, s_cancelled}

\* seed_orders with random.choice(statuses) giving choice[i] for the i-th order
seed_orders(choice) == {[OrderRow(i) EXCEPT !.status = choice[i]] : i \in DOMAIN choice}

\* status values a caller may send
StatusInputs == statuses \cup OrderStatusValues \cup {t_x}

StatusRequests ==
    {[op |-> "get_orders",
      params |-> [page |-> 1, size |-> MaxRows, sort_order |-> s_asc,
                  sort_by |-> s_id, user_id |-> None, status |-> PyStr(v)]] :
        v \in StatusInputs}

InitStatus ==
    /\ call \in StatusRequests
    /\ ret = Pending
    /\ store = EmptyStore
    /\ now = 0
    /\ written = << >>
    /\ products = ProductTable(1)
    /\ users = UserTable(2)
    /\ orders \in {seed_orders(choice) : choice \in [1..(MaxRows - 1) -> statuses]}

FilterOrders(upGet, upSet) ==
    /\ call.op = "get_orders"
    /\ LET r == orders_endpoint(call.params, store, now, orders, users, products,
                                upGet, upSet, TRUE)
       IN  Served(r.resp, upGet, upSet) /\ store' = r.st

NextStatus == \E upGet \in BOOLEAN, upSet \in BOOLEAN : FilterOrders(upGet, upSet)

SpecStatus == InitStatus /\ [][NextStatus]_vars

\* the ids of the orders in a list response
ItemIds(body) == {Field(Field(body, s_items).l[i], s_id).i : i \in 1..Len(Field(body, s_items).l)}

(* C26: each of pending, processing, shipped, delivered and cancelled, the  *)
(* values an order's status is drawn from, is accepted as the status filter *)
(* of GET /orders and the response lists exactly the orders with that       *)
(* status; any other value is not accepted.                                 *)
C26_StatusFilterIsTheHeldValues ==
    ret # Pending =>
        LET v == call.params.status.s
            held == {r \in orders : r.status = v}
        IN  IF v \in statuses
            THEN /\ ret.status = 200
                 /\ Field(ret.body, s_total) = PyInt(Cardinality(held))
                 /\ ItemIds(ret.body) = {r.id : r \in held}
            ELSE ret.status # 200

====
